---- MODULE Spec2Model ----
(***************************************************************************)
(* A model of the preserialize package: the type registry of a             *)
(* Preserializer, the walk that turns an object graph into a wire tree     *)
(* (Preserializer._preserialize) and the walk that rebuilds the graph      *)
(* (Preserializer._depreserialize, LinkManager.set_sources), as            *)
(* instantiated by JsonPreserializer.                                      *)
(*                                                                         *)
(* Strings are sequences of one-character strings, so that the regular     *)
(* expressions and the JSON-pointer formatting of the code are computed    *)
(* character by character.                                                 *)
(***************************************************************************)
EXTENDS Integers, Sequences, FiniteSets, TLC

(***************************************************************************)
(* Bounds of the model.                                                    *)
(***************************************************************************)
MaxTagLen == 3      \* longest wire tag drawn for a registration
MaxVersion == 2     \* versions are drawn from 1..MaxVersion
MaxRegs == 2        \* register calls after construction
MaxCells == 2       \* items, entries and attributes over the whole graph
MaxPairCells == 4   \* the same, in graphs of lists and dicts only
MaxWire == 2        \* items of a list node, positional arguments of a node
MaxKeyLen == 3      \* longest key or token handed to the key encoder

(***************************************************************************)
(* Characters.  \w is Letters \cup Digits, [^\d\W] is Letters.             *)
(***************************************************************************)
Lower == {"a", "b", "c", "d", "e", "f", "g", "h", "i", "j", "k", "l", "m",
          "n", "o", "p", "q", "r", "s", "t", "u", "v", "w", "x", "y", "z"}
Upper == {"E", "N", "P", "S", "T"}
Letters == Lower \cup Upper \cup {"_"}
Digits == {"0", "1", "2", "3", "4", "5", "6", "7", "8", "9"}

None == -1          \* Python's None where an integer version is expected
NoName == <<"None">> \* name=None of Deconstructor.__init__

DATA == <<>>
KEY == <<"$", "r", "e", "f">>

escape_char == KEY[1]

TYPE == <<escape_char, "t", "y", "p", "e">>
VERSION == <<escape_char, "v", "e", "r", "s", "i", "o", "n">>

RECURSIVE Split(_, _)
Split(s, sep) ==
  IF \A k \in 1..Len(s) : s[k] # sep THEN <<s>>
  ELSE LET k == CHOOSE j \in 1..Len(s) :
                  s[j] = sep /\ \A h \in 1..(j - 1) : s[h] # sep
       IN <<SubSeq(s, 1, k - 1)>> \o Split(SubSeq(s, k + 1, Len(s)), sep)

is_identifier(s) ==
  /\ Len(s) >= 1
  /\ s[1] \in Letters
  /\ \A k \in 2..Len(s) : s[k] \in Letters \cup Digits

\* is_type_name with a first segment that cannot be empty
is_type_name_first_required(esc, s) ==
  LET rest == IF Len(s) >= 1 /\ s[1] = esc THEN Tail(s) ELSE s
      segs == Split(rest, ".")
  IN rest = <<>> \/ \A k \in 1..Len(segs) : is_identifier(segs[k])

is_type_name(esc, s) ==
  LET rest == IF Len(s) >= 1 /\ s[1] = esc THEN Tail(s) ELSE s
      segs == Split(rest, ".")
  IN /\ segs[1] = <<>> \/ is_identifier(segs[1])
     /\ \A k \in 2..Len(segs) : is_identifier(segs[k])

lower(s) ==
  LET low(c) == CASE c = "E" -> "e" [] c = "N" -> "n" [] c = "P" -> "p"
                     [] c = "S" -> "s" [] c = "T" -> "t" [] OTHER -> c
  IN [k \in 1..Len(s) |-> low(s[k])]

(***************************************************************************)
(* Classes are named by their __name__.                                    *)
(***************************************************************************)
int == <<"i", "n", "t">>
float == <<"f", "l", "o", "a", "t">>
STR == <<"s", "t", "r">>
bool == <<"b", "o", "o", "l">>
NoneType == <<"N", "o", "n", "e", "T", "y", "p", "e">>
tuple == <<"t", "u", "p", "l", "e">>
set == <<"s", "e", "t">>
dict == <<"d", "i", "c", "t">>
list == <<"l", "i", "s", "t">>
Parrot == <<"P", "a", "r", "r", "o", "t">>
Egg == <<"E", "g", "g">>
Sub == <<"S", "u", "b">>     \* a subclass of Parrot that is never registered

PRIMITIVE == {int, float, STR}

(***************************************************************************)
(* Deconstructor objects.  kind is the Deconstructor class; NoDecon is the *)
(* None stored for a type registered without a Deconstructor.              *)
(***************************************************************************)
NoDecon == [kind |-> "None", cls |-> <<>>, name |-> <<>>, version |-> None]

Deconstructor(kind, cls, name, version) ==
  [kind |-> kind, cls |-> cls,
   name |-> IF name = NoName THEN lower(cls) ELSE name,
   version |-> version]

DeconstructorRaises(cls, name) ==
  ~is_type_name(escape_char, IF name = NoName THEN lower(cls) ELSE name)

Put(f, k, v) == [x \in DOMAIN f \cup {k} |-> IF x = k THEN v ELSE f[x]]

EmptyRegistry ==
  [deconstructors |-> << >>, versions |-> << >>, types |-> << >>,
   err |-> "none"]

\* a register call that enters the tag in the types table before the
\* Deconstructor has checked it
register_tag_first(reg, call) ==
  IF call.dcls # "None"
  THEN [deconstructors |->
          IF DeconstructorRaises(call.cls, call.name) THEN reg.deconstructors
          ELSE Put(reg.deconstructors, <<call.cls, call.version>>,
                   Deconstructor(call.dcls, call.cls, call.name, call.version)),
        versions |->
          IF call.version # None /\ ~DeconstructorRaises(call.cls, call.name)
          THEN Put(reg.versions, call.cls, call.version)
          ELSE reg.versions,
        types |-> Put(reg.types,
                      <<IF call.name = NoName THEN lower(call.cls)
                        ELSE call.name, call.version>>, call.cls),
        err |-> IF DeconstructorRaises(call.cls, call.name)
                THEN "PreserializeError" ELSE "none"]
  ELSE [deconstructors |->
          Put(reg.deconstructors, <<call.cls, None>>, NoDecon),
        versions |-> reg.versions,
        types |-> reg.types,
        err |-> "none"]

(***************************************************************************)
(* Preserializer.register as a function of the three tables.  A call is    *)
(* [cls, dcls, name, version]; dcls = "None" registers a pass-through      *)
(* type.  err is "PreserializeError" when Deconstructor.__init__ raised.   *)
(***************************************************************************)
\* register storing the version of every call, named or not
register_any_version(reg, call) ==
  IF call.dcls # "None"
  THEN IF DeconstructorRaises(call.cls, call.name)
       THEN [deconstructors |-> reg.deconstructors,
             versions |-> reg.versions,
             types |-> reg.types,
             err |-> "PreserializeError"]
       ELSE LET deconstructor ==
                  Deconstructor(call.dcls, call.cls, call.name, call.version)
                version == deconstructor.version
            IN [deconstructors |->
                  Put(reg.deconstructors, <<call.cls, version>>, deconstructor),
                versions |-> Put(reg.versions, call.cls, version),
                types |-> Put(reg.types, <<deconstructor.name, version>>,
                              call.cls),
                err |-> "none"]
  ELSE [deconstructors |->
          Put(reg.deconstructors, <<call.cls, None>>, NoDecon),
        versions |-> Put(reg.versions, call.cls, None),
        types |-> reg.types,
        err |-> "none"]

register(reg, call) ==
  IF call.dcls # "None"
  THEN IF DeconstructorRaises(call.cls, call.name)
       THEN [deconstructors |-> reg.deconstructors,
             versions |-> reg.versions,
             types |-> reg.types,
             err |-> "PreserializeError"]
       ELSE LET deconstructor ==
                  Deconstructor(call.dcls, call.cls, call.name, call.version)
                version == deconstructor.version
            IN [deconstructors |->
                  Put(reg.deconstructors, <<call.cls, version>>, deconstructor),
                versions |->
                  IF version # None
                  THEN Put(reg.versions, call.cls, version)
                  ELSE reg.versions,
                types |-> Put(reg.types, <<deconstructor.name, version>>,
                              call.cls),
                err |-> "none"]
  ELSE [deconstructors |->
          Put(reg.deconstructors, <<call.cls, None>>, NoDecon),
        versions |-> reg.versions,
        types |-> reg.types,
        err |-> "none"]

RECURSIVE register_types(_, _)
register_types(reg, rows) ==
  IF rows = << >> THEN reg
  ELSE register_types(register(reg, Head(rows)), Tail(rows))

Row(cls, dcls, name, version) ==
  [cls |-> cls, dcls |-> dcls, name |-> name, version |-> version]

BASIC_TYPES ==
  << Row(int, "None", NoName, None),
     Row(float, "None", NoName, None),
     Row(STR, "None", NoName, None),
     Row(tuple, "IterableDeconstructor", NoName, None),
     Row(set, "IterableDeconstructor", NoName, None) >>

JSON_TYPES ==
  BASIC_TYPES \o
  << Row(bool, "None", NoName, None),
     Row(NoneType, "None", NoName, None),
     Row(dict, "DictDeconstructor", NoName, None) >>

JsonPreserializer == register_types(EmptyRegistry, JSON_TYPES)

\* JsonTests.setUp: register(Parrot, version=2); register(Egg)
setUp ==
  register_types(JsonPreserializer,
                 << Row(Parrot, "InstanceDeconstructor", NoName, 2),
                    Row(Egg, "InstanceDeconstructor", NoName, None) >>)

\* get_deconstructor_from_type reading self.versions[t] instead of .get(t)
get_deconstructor_from_type_indexed(reg, t) ==
  IF t \in DOMAIN reg.versions
     /\ <<t, reg.versions[t]>> \in DOMAIN reg.deconstructors
  THEN [err |-> "none",
        deconstructor |-> reg.deconstructors[<<t, reg.versions[t]>>]]
  ELSE [err |-> "UnregisteredTypeError", deconstructor |-> NoDecon]

get_deconstructor_from_type(reg, t) ==
  LET v == IF t \in DOMAIN reg.versions THEN reg.versions[t] ELSE None
  IN IF <<t, v>> \in DOMAIN reg.deconstructors
     THEN [err |-> "none", deconstructor |-> reg.deconstructors[<<t, v>>]]
     ELSE [err |-> "UnregisteredTypeError", deconstructor |-> NoDecon]

(***************************************************************************)
(* Python values.  A value is a primitive (ty is its type, s its text, i   *)
(* its number), a reference to the object at address i, or, in a decoded   *)
(* graph only, a reference marker left in place (s is its address text).   *)
(***************************************************************************)
Prim(ty, s, i) == [k |-> "prim", ty |-> ty, s |-> s, i |-> i]
ObjRef(id) == [k |-> "obj", ty |-> <<>>, s |-> <<>>, i |-> id]
Marker(addr) == [k |-> "marker", ty |-> <<>>, s |-> addr, i |-> 0]

IntVal(n) == Prim(int, <<>>, n)
StrVal(s) == Prim(STR, s, 0)

\* An object: a list, tuple or set has items; a dict has entries key -> val;
\* an instance has entries attribute name -> val (its vars()).
Obj(cls, items, ents) == [cls |-> cls, items |-> items, ents |-> ents]
Entry(key, val) == [key |-> key, val |-> val]

(***************************************************************************)
(* Wire trees: a leaf carries a value that passed through unchanged, a     *)
(* list node is list_type, a map node is mapping_type with its keys in     *)
(* insertion order.                                                        *)
(***************************************************************************)
Leaf(v) == [t |-> "leaf", val |-> v, items |-> <<>>, ents |-> <<>>]
ListNode(items) ==
  [t |-> "list", val |-> IntVal(0), items |-> items, ents |-> <<>>]
MapNode(ents) ==
  [t |-> "map", val |-> IntVal(0), items |-> <<>>, ents |-> ents]

HasKey(node, key) == \E k \in 1..Len(node.ents) : node.ents[k].key = key
Get(node, key) ==
  node.ents[CHOOSE k \in 1..Len(node.ents) : node.ents[k].key = key].val

\* data[key] = val on a mapping_type: replace in place or append
SetKey(node, key, val) ==
  IF HasKey(node, key)
  THEN MapNode([k \in 1..Len(node.ents) |->
                  IF node.ents[k].key = key THEN Entry(key, val)
                  ELSE node.ents[k]])
  ELSE MapNode(Append(node.ents, Entry(key, val)))

(***************************************************************************)
(* Paths: tuples of keys, a key being an integer or a string.              *)
(***************************************************************************)
IntKey(n) == [ty |-> "int", s |-> <<>>, i |-> n]
StrKey(s) == [ty |-> "str", s |-> s, i |-> 0]

DigitOf == <<"0", "1", "2", "3", "4", "5", "6", "7", "8", "9">>

RECURSIVE str(_)
str(n) ==
  IF n < 10 THEN <<DigitOf[n + 1]>>
  ELSE str(n \div 10) \o <<DigitOf[(n % 10) + 1]>>

DigitValue(c) == (CHOOSE d \in 1..10 : DigitOf[d] = c) - 1

RECURSIVE Decimal(_)
Decimal(s) ==
  IF s = <<>> THEN 0
  ELSE 10 * Decimal(SubSeq(s, 1, Len(s) - 1)) + DigitValue(s[Len(s)])

\* the strings int() accepts over this alphabet: digits, with single
\* underscores between digits
IsIntLiteral(s) ==
  /\ Len(s) >= 1
  /\ s[1] \in Digits /\ s[Len(s)] \in Digits
  /\ \A k \in 1..Len(s) : s[k] \in Digits \cup {"_"}
  /\ \A k \in 1..(Len(s) - 1) : ~(s[k] = "_" /\ s[k + 1] = "_")

cast_int(s) ==
  IF IsIntLiteral(s)
  THEN IntKey(Decimal(SelectSeq(s, LAMBDA c : c \in Digits)))
  ELSE StrKey(s)

(***************************************************************************)
(* jsonpointer.JsonPointer: from_parts(...).path and JsonPointer(s).parts  *)
(***************************************************************************)
RECURSIVE Flatten(_)
Flatten(ss) == IF ss = <<>> THEN <<>> ELSE Head(ss) \o Flatten(Tail(ss))

PointerEscape(s) ==
  Flatten([k \in 1..Len(s) |->
             CASE s[k] = "~" -> <<"~", "0">>
               [] s[k] = "/" -> <<"~", "1">>
               [] OTHER -> <<s[k]>>])

RECURSIVE PointerUnescape(_)
PointerUnescape(s) ==
  IF s = <<>> THEN <<>>
  ELSE IF Len(s) >= 2 /\ s[1] = "~" /\ s[2] = "1"
       THEN <<"/">> \o PointerUnescape(SubSeq(s, 3, Len(s)))
       ELSE IF Len(s) >= 2 /\ s[1] = "~" /\ s[2] = "0"
            THEN <<"~">> \o PointerUnescape(SubSeq(s, 3, Len(s)))
            ELSE <<s[1]>> \o PointerUnescape(Tail(s))

KeyText(key) == IF key.ty = "int" THEN str(key.i) ELSE key.s

from_parts(path) ==
  Flatten([k \in 1..Len(path) |-> <<"/">> \o PointerEscape(KeyText(path[k]))])

PointerOk(s) == s = <<>> \/ s[1] = "/"

parts(s) ==
  IF s = <<>> THEN <<>>
  ELSE LET ps == Tail(Split(s, "/"))
       IN [k \in 1..Len(ps) |-> PointerUnescape(ps[k])]

(***************************************************************************)
(* JsonReferenceLinkManager                                                *)
(***************************************************************************)
is_ref(node) == node.t = "map" /\ Len(node.ents) = 1 /\ HasKey(node, KEY)

make_ref(dest) == MapNode(<<Entry(KEY, Leaf(StrVal(<<"#">> \o from_parts(dest))))>>)

\* ref_path taking every address for the root, whatever its syntax
ref_path_any(ref) == [err |-> "none", parts |-> << >>]

\* ref_path: err is "none", or the exception raised
ref_path(ref) ==
  LET v == Get(ref, KEY)
  IN IF v.t # "leaf" \/ v.val.k # "prim" \/ v.val.ty # STR
     THEN [err |-> "AttributeError", parts |-> <<>>]
     ELSE IF Len(v.val.s) >= 1 /\ v.val.s[1] = "#"
          THEN IF PointerOk(Tail(v.val.s))
               THEN [err |-> "none", parts |-> parts(Tail(v.val.s))]
               ELSE [err |-> "JsonPointerException", parts |-> <<>>]
          ELSE [err |-> "JsonReferenceError", parts |-> <<>>]

(***************************************************************************)
(* IdentifierEscapeEncoder                                                 *)
(***************************************************************************)
\* encode leaving the escape character as it is
encode_plain(char, s) ==
  IF is_identifier(s) THEN [err |-> "none", s |-> s]
  ELSE [err |-> "PreserializeError", s |-> <<>>]

encode(char, s) ==
  IF is_identifier(s)
  THEN [err |-> "none",
        s |-> IF s = DATA THEN <<char>>
              ELSE Flatten([k \in 1..Len(s) |->
                              IF s[k] = char THEN <<char, char>>
                              ELSE <<s[k]>>])]
  ELSE [err |-> "PreserializeError", s |-> <<>>]

RECURSIVE Undouble(_, _)
Undouble(char, s) ==
  IF s = <<>> THEN <<>>
  ELSE IF Len(s) >= 2 /\ s[1] = char /\ s[2] = char
       THEN <<char>> \o Undouble(char, SubSeq(s, 3, Len(s)))
       ELSE <<s[1]>> \o Undouble(char, Tail(s))

\* decode without the token that stands for DATA
decode_plain(char, s) == Undouble(char, s)

decode(char, s) == IF s = <<char>> THEN DATA ELSE Undouble(char, s)

(***************************************************************************)
(* State.                                                                  *)
(***************************************************************************)
VARIABLES
  deconstructors,   \* Preserializer.deconstructors: (type, version) -> Deconstructor
  versions,         \* Preserializer.versions: type -> version
  types,            \* Preserializer.types: (name, version) -> type
  regLog,           \* the register calls made after construction, with outcome
  heap,             \* the caller's objects, by address
  op,               \* the last operation
  enc,              \* the last preserialize call: argument, result, LinkManager
  dec,              \* the last depreserialize call: argument, result, LinkManager
  coded             \* the last IdentifierEscapeEncoder call: argument, result

vars == <<deconstructors, versions, types, regLog, heap, op, enc, dec, coded>>

Registry ==
  [deconstructors |-> deconstructors, versions |-> versions, types |-> types]

NoEnc ==
  [root |-> IntVal(0), data |-> Leaf(IntVal(0)), err |-> "none",
   path_cache |-> << >>, links |-> << >>, visits |-> << >>]

NoDec ==
  [data |-> Leaf(IntVal(0)), obj |-> IntVal(0), heap |-> << >>,
   err |-> "none", object_cache |-> << >>, links |-> << >>,
   parent_deconstructors |-> << >>, events |-> << >>, patched |-> << >>,
   visits |-> << >>]

NoKey ==
  [call |-> "none", char |-> escape_char, s |-> << >>, out |-> << >>,
   err |-> "none", of |-> << >>]

(***************************************************************************)
(* The caller's object graph.                                              *)
(***************************************************************************)
Leaves == {IntVal(1)}
DictKeys == {StrVal(<<"a">>), IntVal(3)}
AttrNames == {StrVal(<<"a">>), StrVal(<<"b">>)}
Mutable == {list, dict, Parrot}

\* what a statement can store: a leaf or an object that exists
Values(h, leaves) == leaves \cup {ObjRef(i) : i \in 1..Len(h)}

RECURSIVE Cells(_)
Cells(h) ==
  IF h = << >> THEN 0
  ELSE Len(Head(h).items) + Len(Head(h).ents) + Cells(Tail(h))

\* the objects a statement can create on the spot: an empty list, dict or
\* instance, or a tuple of at most n values that already exist
Empties(kinds) == {Obj(cls, << >>, << >>) : cls \in kinds}
Tuples(h, leaves, n) ==
  {Obj(tuple, items, << >>) :
     items \in UNION {[1..k -> Values(h, leaves)] : k \in 0..n}}

\* the keys a store into o can use: the next index of a list, a key or an
\* attribute name o does not have yet
NextKeys(o) ==
  LET used == {o.ents[k].key : k \in 1..Len(o.ents)}
  IN CASE o.cls = list -> {IntVal(Len(o.items))}
       [] o.cls = dict -> DictKeys \ used
       [] o.cls = Parrot -> AttrNames \ used
       [] OTHER -> {}

Building == op \in {"none", "build"}

NewRoot(o, cap) ==
  /\ Building
  /\ heap = << >>
  /\ Len(o.items) <= cap
  /\ heap' = <<o>>
  /\ op' = "build"
  /\ UNCHANGED <<deconstructors, versions, types, regLog, enc, dec, coded>>

\* id.append(v), id[key] = v, setattr(id, key, v) with v an existing value
Store(id, key, v, cap) ==
  /\ Building
  /\ Cells(heap) < cap
  /\ key \in NextKeys(heap[id])
  /\ \/ /\ heap[id].cls = list
        /\ heap' = [heap EXCEPT ![id].items = Append(@, v)]
     \/ /\ heap[id].cls # list
        /\ heap' = [heap EXCEPT ![id].ents = Append(@, Entry(key, v))]
  /\ op' = "build"
  /\ UNCHANGED <<deconstructors, versions, types, regLog, enc, dec, coded>>

\* the same with v an object created by the statement
StoreNew(id, key, o, cap) ==
  /\ Building
  /\ Cells(heap) + Len(o.items) < cap
  /\ key \in NextKeys(heap[id])
  /\ LET v == ObjRef(Len(heap) + 1)
     IN \/ /\ heap[id].cls = list
           /\ heap' = Append([heap EXCEPT ![id].items = Append(@, v)], o)
        \/ /\ heap[id].cls # list
           /\ heap' = Append([heap EXCEPT ![id].ents = Append(@, Entry(key, v))], o)
  /\ op' = "build"
  /\ UNCHANGED <<deconstructors, versions, types, regLog, enc, dec, coded>>

Build ==
  \/ /\ heap = << >>
     /\ \E o \in Empties(Mutable) \cup Tuples(heap, Leaves, MaxCells) :
          NewRoot(o, MaxCells)
  \/ \E id \in 1..Len(heap) : \E key \in NextKeys(heap[id]) :
       \E v \in Values(heap, Leaves) : Store(id, key, v, MaxCells)
  \/ \E id \in 1..Len(heap) : \E key \in NextKeys(heap[id]) :
       \E o \in Empties(Mutable)
                  \cup Tuples(heap, Leaves, MaxCells - Cells(heap) - 1) :
         StoreNew(id, key, o, MaxCells)

\* graphs of lists and of dicts whose key is no identifier, with an instance
\* of an unregistered subclass among the leaves
PairLeaves == Leaves \cup {Prim(Sub, <<>>, 0)}
PairKeys(o) == NextKeys(o) \ {StrVal(<<"a">>)}

BuildPairs ==
  \/ /\ heap = << >>
     /\ \E o \in Empties({list, dict}) : NewRoot(o, MaxPairCells)
  \/ \E id \in 1..Len(heap) : \E key \in PairKeys(heap[id]) :
       \E v \in Values(heap, PairLeaves) : Store(id, key, v, MaxPairCells)
  \/ \E id \in 1..Len(heap) : \E key \in PairKeys(heap[id]) :
       \E o \in Empties({list, dict}) : StoreNew(id, key, o, MaxPairCells)

InitTest ==
  /\ deconstructors = setUp.deconstructors
  /\ versions = setUp.versions
  /\ types = setUp.types
  /\ regLog = << >>
  /\ heap = << >>
  /\ op = "none"
  /\ enc = NoEnc
  /\ dec = NoDec
  /\ coded = NoKey

(***************************************************************************)
(* LinkManager                                                             *)
(***************************************************************************)
\* LinkManager.add that records no source
add_nothing(links, source, dest) == links

\* LinkManager.add: _links is an OrderedDict dest -> [i, [source, ...]]
add(links, source, dest) ==
  IF \E k \in 1..Len(links) : links[k].dest = dest
  THEN [k \in 1..Len(links) |->
          IF links[k].dest = dest
          THEN [links[k] EXCEPT !.sources = Append(@, source)]
          ELSE links[k]]
  ELSE Append(links, [dest |-> dest, i |-> Len(links), sources |-> <<source>>])

\* LinkManager.getitem on a wire tree
RECURSIVE getitem(_, _)
getitem(data, path) ==
  IF path = << >> THEN [ok |-> TRUE, data |-> data]
  ELSE LET key == Head(path)
       IN IF data.t = "list" /\ key.ty = "int" /\ key.i < Len(data.items)
          THEN getitem(data.items[key.i + 1], Tail(path))
          ELSE IF data.t = "map" /\ key.ty = "str" /\ HasKey(data, key.s)
               THEN getitem(Get(data, key.s), Tail(path))
               ELSE [ok |-> FALSE, data |-> data]

\* LinkManager.label_data with the label_destination of LinkManager, which
\* returns its argument: every destination is read and written back
label_data(links, data) ==
  IF \A k \in 1..Len(links) : getitem(data, links[k].dest).ok
  THEN [err |-> "none", data |-> data]
  ELSE [err |-> "KeyError", data |-> data]

(***************************************************************************)
(* Preserializer._preserialize.  The walk threads the LinkManager and the  *)
(* allocator through st: heap (the caller's objects and the lists made by  *)
(* DictDeconstructor.deconstruct), dead (addresses of such lists that have *)
(* been released), oracle (the allocator's choices: 0 a new address, j the *)
(* j-th released address).                                                 *)
(***************************************************************************)
TypeOf(h, v) == IF v.k = "prim" THEN v.ty ELSE h[v.i].cls

Nth(S, j) == CHOOSE a \in S : Cardinality({b \in S : b < a}) = j - 1

\* a new list object holding items, at the address the allocator picks
Alloc(st, items) ==
  LET n == st.nalloc + 1
      j == IF n <= Len(st.oracle) THEN st.oracle[n] ELSE 0
      reuse == j >= 1 /\ j <= Cardinality(st.dead)
      addr == IF reuse THEN Nth(st.dead, j) ELSE st.next
  IN [st EXCEPT !.nalloc = n,
                !.dead = @ \ {addr},
                !.next = IF reuse THEN @ ELSE @ + 1,
                !.heap = Put(@, addr, Obj(list, items, << >>)),
                !.fresh = Append(@, addr)]

RECURSIVE AllocPairs(_, _)
AllocPairs(st, ents) ==
  IF ents = << >> THEN st
  ELSE AllocPairs(Alloc(st, <<Head(ents).key, Head(ents).val>>), Tail(ents))

\* [list(item) for item in obj.items()]: the lists made, as args
Pairs(st1) ==
  [args |-> [k \in 1..Len(st1.fresh) |-> ObjRef(st1.fresh[k])],
   kwargs |-> << >>, st |-> st1, made |-> st1.fresh]

\* Deconstructor.deconstruct and its overrides: args and kwargs (empty for
\* None), the allocator after the call and the lists the call made
deconstruct(deconstructor, obj, st) ==
  CASE deconstructor.kind = "IterableDeconstructor" ->
         [args |-> obj.items, kwargs |-> << >>, st |-> st, made |-> << >>]
    [] deconstructor.kind = "DictDeconstructor" ->
         IF \A k \in 1..Len(obj.ents) :
              obj.ents[k].key.ty = STR /\ is_identifier(obj.ents[k].key.s)
         THEN [args |-> << >>, kwargs |-> obj.ents, st |-> st,
               made |-> << >>]
         ELSE Pairs(AllocPairs([st EXCEPT !.fresh = << >>], obj.ents))
    [] deconstructor.kind = "InstanceDeconstructor" ->
         [args |-> << >>, kwargs |-> obj.ents, st |-> st, made |-> << >>]
    [] OTHER -> [args |-> << >>, kwargs |-> << >>, st |-> st, made |-> << >>]

KeyStr(key) == IF key.ty = STR THEN key.s ELSE str(key.i)

Visit(st, path, v, how) ==
  [st EXCEPT !.visits = Append(@, [path |-> path, v |-> v, how |-> how])]

Fail(st, err) == [st EXCEPT !.err = err]

RECURSIVE pre(_, _, _, _)
RECURSIVE preItems(_, _, _, _, _)
RECURSIVE preKwargs(_, _, _, _, _)
RECURSIVE preItem(_, _, _, _, _)
RECURSIVE preKwarg(_, _, _, _, _)
RECURSIVE preKwargSet(_, _, _, _, _)
RECURSIVE preDeconstructed(_, _, _, _)

\* link_manager.path_cache_add(obj, path) on the first visit of an object
preFirst(st, path, v) ==
  Visit([st EXCEPT !.path_cache = Put(@, v.i, path)], path, v, "full")

\* data = {TYPE: deconstructor.name}, and VERSION when there is a version
preTagged(deconstructor) ==
  IF deconstructor.version # None
  THEN MapNode(<<Entry(TYPE, Leaf(StrVal(deconstructor.name))),
                 Entry(VERSION, Leaf(IntVal(deconstructor.version)))>>)
  ELSE MapNode(<<Entry(TYPE, Leaf(StrVal(deconstructor.name)))>>)

\* args, kwargs = deconstructor.deconstruct(obj)
\* if args: data[DATA] = [...]; if kwargs: data[ekey] = ...; then the frame
\* returns and args, the list deconstruct made, is released
preDeconstructed(reg, path, deconstructor, d) ==
  [preKwargs(reg, d.kwargs, path, Len(d.kwargs),
             [preItems(reg, d.args, path \o <<StrKey(DATA)>>, Len(d.args),
                       d.st)
                EXCEPT !.data = IF d.args # << >>
                                THEN SetKey(preTagged(deconstructor), DATA, @)
                                ELSE preTagged(deconstructor)])
     EXCEPT !.st.dead = @ \cup {d.made[k] : k \in 1..Len(d.made)}]

\* the frames that do not descend: an exception, a primitive returned as
\* it is, or the marker of an object met before
preStop(v, path, st, look) ==
  IF st.err # "none" THEN [data |-> Leaf(v), st |-> st]
  ELSE IF look.err # "none"
  THEN [data |-> Leaf(v), st |-> Fail(st, look.err)]
  ELSE IF TypeOf(st.heap, v) # list /\ look.deconstructor = NoDecon
  THEN [data |-> Leaf(v), st |-> Visit(st, path, v, "leaf")]
  ELSE LET dest_path == st.path_cache[v.i]
       IN [data |-> make_ref(dest_path),
           st |-> Visit([st EXCEPT !.links = add(@, path, dest_path)],
                        path, v, "ref")]

\* _preserialize(obj, path, link_manager): the datum yielded and the state
pre(reg, v, path, st) ==
  LET t == TypeOf(st.heap, v)
      look == IF t # list THEN get_deconstructor_from_type(reg, t)
              ELSE [err |-> "none", deconstructor |-> NoDecon]
  IN
  IF \/ st.err # "none"
     \/ look.err # "none"
     \/ t # list /\ look.deconstructor = NoDecon
     \/ v.i \in DOMAIN st.path_cache
  THEN preStop(v, path, st, look)
  ELSE IF t = list
  THEN preItems(reg, st.heap[v.i].items, path, Len(st.heap[v.i].items),
                preFirst(st, path, v))
  ELSE preDeconstructed(reg, path, look.deconstructor,
                        deconstruct(look.deconstructor, st.heap[v.i],
                                    preFirst(st, path, v)))

\* round k of the loop over the items, after the rounds before it:
\* append(yield _preserialize(item, path + (i,)))
preItem(reg, vals, path, k, acc) ==
  IF acc.st.err # "none" THEN acc
  ELSE [pre(reg, vals[k], path \o <<IntKey(k - 1)>>, acc.st)
          EXCEPT !.data = ListNode(Append(acc.data.items, @))]

\* the first k rounds of: for i, item in enumerate(...)
preItems(reg, vals, path, k, st) ==
  IF k = 0 THEN [data |-> ListNode(<< >>), st |-> st]
  ELSE preItem(reg, vals, path, k, preItems(reg, vals, path, k - 1, st))

\* data[ekey] = yield _preserialize(attr, path + (ekey,))
preKwargSet(reg, ent, path, acc, ekey) ==
  IF ekey.err # "none"
  THEN [data |-> acc.data, st |-> Fail(acc.st, ekey.err)]
  ELSE [pre(reg, ent.val, path \o <<StrKey(ekey.s)>>, acc.st)
          EXCEPT !.data = SetKey(acc.data, ekey.s, @)]

\* round k of the loop over kwargs, after the rounds before it:
\* ekey = IdentifierEscapeEncoder.encode(escape_char, key)
preKwarg(reg, ents, path, k, acc) ==
  IF acc.st.err # "none" THEN acc
  ELSE preKwargSet(reg, ents[k], path, acc,
                   encode(escape_char, KeyStr(ents[k].key)))

\* the first k rounds of: for key, attr in kwargs.items(), after r
preKwargs(reg, ents, path, k, r) ==
  IF k = 0 THEN r
  ELSE preKwarg(reg, ents, path, k, preKwargs(reg, ents, path, k - 1, r))

\* link_manager_cls() and the allocator at the start of a call
NewWalk(h, oracle) ==
  [heap |-> h, path_cache |-> << >>, links |-> << >>, visits |-> << >>,
   dead |-> {}, next |-> Len(h) + 1, nalloc |-> 0, fresh |-> << >>,
   oracle |-> oracle, err |-> "none"]

\* Preserializer.preserialize
labelled(root, r, l) ==
  [root |-> root,
   data |-> IF r.st.err = "none" /\ l.err = "none" THEN l.data
            ELSE Leaf(IntVal(0)),
   err |-> IF r.st.err # "none" THEN r.st.err ELSE l.err,
   path_cache |-> r.st.path_cache,
   links |-> r.st.links,
   visits |-> r.st.visits]

\* return link_manager.label_data(data)
trampolined(root, r) == labelled(root, r, label_data(r.st.links, r.data))

preserialize(reg, h, root, oracle) ==
  trampolined(root, pre(reg, root, << >>, NewWalk(h, oracle)))

\* the lists DictDeconstructor.deconstruct can make for the objects of h
PairLists(h) ==
  LET pairs(o) == IF o.cls = dict /\ \E k \in 1..Len(o.ents) :
                       ~(o.ents[k].key.ty = STR /\ is_identifier(o.ents[k].key.s))
                  THEN Len(o.ents) ELSE 0
      sum[k \in 0..Len(h)] == IF k = 0 THEN 0 ELSE sum[k - 1] + pairs(h[k])
  IN sum[Len(h)]

\* the n-th list allocated can take any of the n - 1 addresses released
\* before it, or a new one
Oracles(h) == {o \in [1..PairLists(h) -> 0..PairLists(h)] :
                 \A n \in 1..PairLists(h) : o[n] < n}

Primitives ==
  {IntVal(123), Prim(float, <<"3", ".", "1", "4">>, 0),
   StrVal(<<"N", "i", "!">>), Prim(bool, <<>>, 0), Prim(NoneType, <<>>, 0)}

\* the argument of a call: the first object built, or a primitive scalar
Roots(h) == IF h = << >> THEN Primitives ELSE {ObjRef(1)}

Preserialize(root, oracle) ==
  /\ op \in {"none", "build", "register"}
  /\ root.k = "obj" => root.i \in 1..Len(heap)
  /\ enc' = preserialize(Registry, heap, root, oracle)
  /\ op' = "preserialize"
  /\ UNCHANGED <<deconstructors, versions, types, regLog, heap, dec, coded>>

(***************************************************************************)
(* Construction of decoded objects.  st.heap is the sequence of objects    *)
(* the call has built.                                                     *)
(***************************************************************************)
New(st, o) ==
  [obj |-> ObjRef(Len(st.heap) + 1),
   st |-> [st EXCEPT !.heap = Append(@, o)]]

Raise(st, err) == [obj |-> IntVal(0), st |-> Fail(st, err)]

\* mapping[key] = val on the entries of a dict or of vars(obj)
SetEnt(ents, key, val) ==
  IF \E k \in 1..Len(ents) : ents[k].key = key
  THEN [k \in 1..Len(ents) |->
          IF ents[k].key = key THEN Entry(key, val) ELSE ents[k]]
  ELSE Append(ents, Entry(key, val))

RECURSIVE SetEnts(_, _)
SetEnts(ents, more) ==
  IF more = << >> THEN ents
  ELSE SetEnts(SetEnt(ents, Head(more).key, Head(more).val), Tail(more))

\* hash(v) succeeds; a marker left in place is a dict
RECURSIVE hashable(_, _)
hashable(h, v) ==
  CASE v.k = "prim" -> TRUE
    [] v.k = "marker" -> FALSE
    [] OTHER ->
         LET o == h[v.i]
         IN CASE o.cls \in {list, dict, set} -> FALSE
              [] o.cls = tuple ->
                   \A k \in 1..Len(o.items) : hashable(h, o.items[k])
              [] OTHER -> TRUE

RECURSIVE Dedup(_)
Dedup(items) ==
  IF items = << >> THEN << >>
  ELSE LET rest == Dedup(SubSeq(items, 1, Len(items) - 1))
           last == items[Len(items)]
       IN IF \E k \in 1..Len(rest) : rest[k] = last THEN rest
          ELSE Append(rest, last)

\* len(v) = 2 for a list or tuple: what dict() takes as a key/value pair
IsPair(h, v) ==
  v.k = "obj" /\ h[v.i].cls \in {list, tuple} /\ Len(h[v.i].items) = 2

\* cls(items) for the built-in containers
CallIter(cls, items, st) ==
  CASE cls = tuple -> New(st, Obj(tuple, items, << >>))
    [] cls = set ->
         IF \A k \in 1..Len(items) : hashable(st.heap, items[k])
         THEN New(st, Obj(set, Dedup(items), << >>))
         ELSE Raise(st, "TypeError")
    [] cls = dict ->
         IF \E k \in 1..Len(items) : items[k].k = "prim"
         THEN Raise(st, "TypeError")
         ELSE IF \E k \in 1..Len(items) : ~IsPair(st.heap, items[k])
         THEN Raise(st, "ValueError")
         ELSE IF \E k \in 1..Len(items) :
                   ~hashable(st.heap, st.heap[items[k].i].items[1])
         THEN Raise(st, "TypeError")
         ELSE New(st, Obj(dict, << >>,
                SetEnts(<< >>, [k \in 1..Len(items) |->
                   Entry(st.heap[items[k].i].items[1],
                         st.heap[items[k].i].items[2])])))
    [] OTHER -> Raise(st, "TypeError")

is_dead == <<"i", "s", "_", "d", "e", "a", "d">>
from_egg == <<"f", "r", "o", "m", "_", "e", "g", "g">>
from_parrot == <<"f", "r", "o", "m", "_", "p", "a", "r", "r", "o", "t">>
True == Prim(bool, <<>>, 1)
NoneValue == Prim(NoneType, <<>>, 0)

\* cls(*args) for the classes of JsonTests.setUp:
\*   Parrot.__init__(self, is_dead=True, from_egg=None)
\*   Egg.__init__(self, from_parrot=None)
CallPos(cls, args, st) ==
  CASE cls \in {Parrot, Sub} ->
         IF Len(args) > 2 THEN Raise(st, "TypeError")
         ELSE New(st, Obj(cls, << >>,
                <<Entry(StrVal(is_dead),
                        IF Len(args) >= 1 THEN args[1] ELSE True),
                  Entry(StrVal(from_egg),
                        IF Len(args) >= 2 THEN args[2] ELSE NoneValue)>>))
    [] cls = Egg ->
         IF Len(args) > 1 THEN Raise(st, "TypeError")
         ELSE New(st, Obj(cls, << >>,
                <<Entry(StrVal(from_parrot),
                        IF Len(args) >= 1 THEN args[1] ELSE NoneValue)>>))
    [] OTHER -> Raise(st, "TypeError")

\* Python's obj[key] = value on the object at address id
setitem(st, id, key, value) ==
  LET o == st.heap[id]
  IN CASE o.cls = dict ->
            IF hashable(st.heap, key)
            THEN [st EXCEPT !.heap[id].ents = SetEnt(@, key, value)]
            ELSE Fail(st, "TypeError")
       [] o.cls = list ->
            IF key.k # "prim" \/ key.ty # int THEN Fail(st, "TypeError")
            ELSE IF key.i >= Len(o.items) THEN Fail(st, "IndexError")
            ELSE [st EXCEPT !.heap[id].items[key.i + 1] = value]
       [] OTHER -> Fail(st, "TypeError")   \* tuple, set, plain instance

\* Deconstructor.setattr and its overrides, on the object at address id
setattr(deconstructor, st, id, key, value) ==
  CASE deconstructor.kind = "InstanceDeconstructor" ->
         [st EXCEPT !.heap[id].ents = SetEnt(@, key, value)]
    [] deconstructor.kind \in {"DictDeconstructor", "IterableDeconstructor"} ->
         setitem(st, id, key, value)
    [] OTHER -> Fail(st, "PreserializeError")

RECURSIVE setattrs(_, _, _, _)
setattrs(deconstructor, st, id, kwargs) ==
  IF kwargs = << >> \/ st.err # "none" THEN st
  ELSE setattrs(deconstructor,
                setattr(deconstructor, st, id, Head(kwargs).key,
                        Head(kwargs).val),
                id, Tail(kwargs))

\* for key, value in kwargs.items(): self.setattr(obj, key, value)
constructed(deconstructor, kwargs, made) ==
  IF made.st.err # "none" THEN made
  ELSE [obj |-> made.obj,
        st |-> setattrs(deconstructor, made.st, made.obj.i, kwargs)]

\* Deconstructor.construct and its overrides
construct(deconstructor, args, kwargs, st) ==
  IF deconstructor = NoDecon THEN Raise(st, "AttributeError")
  ELSE constructed(deconstructor, kwargs,
         IF deconstructor.kind \in {"IterableDeconstructor", "DictDeconstructor"}
         THEN CallIter(deconstructor.cls, args, st)
         ELSE IF args # << >> THEN CallPos(deconstructor.cls, args, st)
              ELSE New(st, Obj(deconstructor.cls, << >>, << >>)))

get_deconstructor_from_data(reg, data) ==
  LET version == IF HasKey(data, VERSION) THEN Get(data, VERSION).val.i
                 ELSE None
  IN IF ~HasKey(data, TYPE)
     THEN [err |-> "KeyError", deconstructor |-> NoDecon]
     ELSE LET name == Get(data, TYPE).val.s
          IN IF <<name, version>> \in DOMAIN reg.types
                /\ <<reg.types[<<name, version>>], version>>
                     \in DOMAIN reg.deconstructors
             THEN [err |-> "none",
                   deconstructor |->
                     reg.deconstructors[<<reg.types[<<name, version>>],
                                          version>>]]
             ELSE [err |-> "UnregisteredTypeError", deconstructor |-> NoDecon]

KeyVal(key) == IF key.ty = "int" THEN IntVal(key.i) ELSE StrVal(key.s)

\* a destination path that keeps the "" segments of the address
dest_path_kept(ps) == [k \in 1..Len(ps) |-> cast_int(ps[k])]

dest_path_of(ps) ==
  LET kept == SelectSeq(ps, LAMBDA key : key # DATA)
  IN [k \in 1..Len(kept) |-> cast_int(kept[k])]

(***************************************************************************)
(* Preserializer._depreserialize                                           *)
(***************************************************************************)
RECURSIVE depre(_, _, _, _, _)
RECURSIVE depreItems(_, _, _, _, _)
RECURSIVE depreItem(_, _, _, _, _)
RECURSIVE depreArgs(_, _, _, _, _, _)
RECURSIVE depreArg(_, _, _, _, _, _)
RECURSIVE depreKwarg(_, _, _, _, _, _)
RECURSIVE depreEntry(_, _, _, _, _)
RECURSIVE depreEntries(_, _, _, _, _, _)
RECURSIVE depreMap(_, _, _, _, _)

\* a primitive yields itself
depreLeaf(data, st, look) ==
  IF look.err # "none" THEN Raise(st, look.err)
  ELSE IF look.deconstructor = NoDecon THEN [obj |-> data.val, st |-> st]
  ELSE Raise(st, "AttributeError")

\* a marker visit that never consults the object cache
depreLink_uncached(data, path, parent_deconstructor, st, dest_path) ==
  [obj |-> Marker(Get(data, KEY).val.s),
   st |-> [st EXCEPT
             !.links = add(@, path, dest_path),
             !.parent_deconstructors = Put(@, path, parent_deconstructor),
             !.events = Append(@,
                [what |-> "deferred", path |-> path, dest |-> dest_path])]]

\* obj = link_manager.object_cache_get(dest_path), else link_manager.add
depreLink(data, path, parent_deconstructor, st, dest_path) ==
  IF dest_path \in DOMAIN st.object_cache
  THEN [obj |-> st.object_cache[dest_path],
        st |-> [st EXCEPT !.events = Append(@,
                  [what |-> "cached", path |-> path, dest |-> dest_path])]]
  ELSE [obj |-> Marker(Get(data, KEY).val.s),
        st |-> [st EXCEPT
                  !.links = add(@, path, dest_path),
                  !.parent_deconstructors = Put(@, path, parent_deconstructor),
                  !.events = Append(@,
                     [what |-> "deferred", path |-> path,
                      dest |-> dest_path])]]

\* dest_path = link_manager.ref_path(data)
depreRef(data, path, parent_deconstructor, st, rp) ==
  IF rp.err # "none" THEN Raise(st, rp.err)
  ELSE depreLink(data, path, parent_deconstructor, st, dest_path_of(rp.parts))

\* link_manager.object_cache_add(path, obj)
depreCached(path, made) ==
  IF made.st.err # "none" THEN made
  ELSE [obj |-> made.obj,
        st |-> [made.st EXCEPT !.object_cache = Put(@, path, made.obj)]]

\* obj = [...] of a list datum, once the loop has ended
depreListed(path, r) ==
  IF r.st.err # "none" THEN Raise(r.st, r.st.err)
  ELSE depreCached(path, New(r.st, Obj(list, r.obj, << >>)))

\* the frame of a list datum: the loop r runs first, then the frame yields
depreList(path, r) ==
  [r EXCEPT !.obj = depreListed(path, r).obj,
            !.st = depreListed(path, r).st]

\* obj = deconstructor.construct(args, kwargs), once the loop has ended
depreConstructed(path, deconstructor, r) ==
  IF r.st.err # "none" THEN Raise(r.st, r.st.err)
  ELSE depreCached(path,
                   construct(deconstructor, r.obj.args, r.obj.kwargs, r.st))

\* the frame of a mapping datum: the loop r runs first, then the frame
\* yields
depreConstruct(path, deconstructor, r) ==
  [r EXCEPT !.obj = depreConstructed(path, deconstructor, r).obj,
            !.st = depreConstructed(path, deconstructor, r).st]

\* deconstructor = self.get_deconstructor_from_data(data)
depreMap(reg, data, path, st, found) ==
  IF found.err # "none" THEN Raise(st, found.err)
  ELSE depreConstruct(path, found.deconstructor,
         depreEntries(reg, data.ents, path, found.deconstructor,
                      Len(data.ents), st))

\* a frame of _depreserialize that leaves no trace of its start
entered_unseen(st, path) == st

\* a frame of _depreserialize starts at path
entered(st, path) == [st EXCEPT !.visits = Append(@, path)]

\* the frames that do not descend: an exception, a primitive, a marker
depreStop(reg, data, path, parent_deconstructor, st) ==
  IF st.err # "none" THEN [obj |-> IntVal(0), st |-> st]
  ELSE IF data.t = "leaf"
  THEN depreLeaf(data, entered(st, path),
                 get_deconstructor_from_type(reg, TypeOf(st.heap0, data.val)))
  ELSE depreRef(data, path, parent_deconstructor, entered(st, path),
                ref_path(data))

\* _depreserialize(data, path, doc, link_manager, parent_deconstructor)
depre(reg, data, path, parent_deconstructor, st) ==
  IF st.err # "none" \/ data.t = "leaf" \/ is_ref(data)
  THEN depreStop(reg, data, path, parent_deconstructor, st)
  ELSE IF data.t = "list"
  THEN depreList(path,
                 depreItems(reg, data.items, path, Len(data.items),
                            entered(st, path)))
  ELSE depreMap(reg, data, path, entered(st, path),
                get_deconstructor_from_data(reg, data))

\* round k of the loop over a list datum, after the rounds before it:
\* obj.append(yield _depreserialize(item, path + (i,), ..., None))
depreItem(reg, items, path, k, acc) ==
  IF acc.st.err # "none" THEN acc
  ELSE [depre(reg, items[k], path \o <<IntKey(k - 1)>>, NoDecon, acc.st)
          EXCEPT !.obj = Append(acc.obj, @)]

\* obj = [] and the first k rounds of: for i, item in enumerate(data)
depreItems(reg, items, path, k, st) ==
  IF k = 0 THEN [obj |-> << >>, st |-> st]
  ELSE depreItem(reg, items, path, k, depreItems(reg, items, path, k - 1, st))

\* round k of the loop under DATA, after the rounds before it:
\* args.append(yield _depreserialize(arg, path + (i,), ..., deconstructor))
depreArg(reg, items, path, deconstructor, k, acc) ==
  IF acc.st.err # "none" THEN acc
  ELSE [depre(reg, items[k], path \o <<IntKey(k - 1)>>, deconstructor,
              acc.st)
          EXCEPT !.obj = [args |-> Append(acc.obj.args, @),
                          kwargs |-> acc.obj.kwargs]]

\* the first k rounds of: for i, arg in enumerate(item), after r
depreArgs(reg, items, path, deconstructor, k, r) ==
  IF k = 0 THEN r
  ELSE depreArg(reg, items, path, deconstructor, k,
                depreArgs(reg, items, path, deconstructor, k - 1, r))

\* dkey = IdentifierEscapeEncoder.decode(escape_char, key)
\* kwargs[dkey] = yield _depreserialize(item, path + (dkey,), ...)
depreKwarg(reg, ent, path, deconstructor, acc, dkey) ==
  [depre(reg, ent.val, path \o <<StrKey(dkey)>>, deconstructor, acc.st)
     EXCEPT !.obj = [args |-> acc.obj.args,
                     kwargs |-> SetEnt(acc.obj.kwargs, StrVal(dkey), @)]]

\* one round of: for key, item in data.items(), after the rounds before it
\* (the rounds under DATA end at once after an exception)
depreEntry(reg, ent, path, deconstructor, acc) ==
  IF ent.key = DATA /\ ent.val.t = "list"
  THEN depreArgs(reg, ent.val.items, path, deconstructor,
                 Len(ent.val.items), acc)
  ELSE IF acc.st.err # "none" \/ ent.key \in {TYPE, VERSION} THEN acc
  ELSE IF ent.key = DATA THEN [acc EXCEPT !.st = Fail(@, "TypeError")]
  ELSE depreKwarg(reg, ent, path, deconstructor, acc,
                  decode(escape_char, ent.key))

\* args = [], kwargs = {} and the first k rounds of the loop over data
depreEntries(reg, ents, path, deconstructor, k, st) ==
  IF k = 0 THEN [obj |-> [args |-> << >>, kwargs |-> << >>], st |-> st]
  ELSE depreEntry(reg, ents[k], path, deconstructor,
                  depreEntries(reg, ents, path, deconstructor, k - 1, st))

(***************************************************************************)
(* LinkManager.set_sources                                                 *)
(***************************************************************************)
Patch(st, source, dest) ==
  LET deconstructor == st.parent_deconstructors[source]
      parent == SubSeq(source, 1, Len(source) - 1)
  IN
  IF source = << >> /\ << >> \notin DOMAIN st.object_cache
  THEN Fail(st, "KeyError")
  ELSE IF source = << >> THEN Fail(st, "IndexError")
  ELSE IF parent \notin DOMAIN st.object_cache THEN Fail(st, "KeyError")
  ELSE
  LET parent_obj == st.object_cache[parent]
      key == source[Len(source)]
      dest_obj == st.object_cache[dest]
      done == [st EXCEPT !.patched = Append(@, [source |-> source,
                                                  dest |-> dest])]
  IN
  IF deconstructor # NoDecon
  THEN setattr(deconstructor, done, parent_obj.i, KeyVal(key), dest_obj)
  ELSE setitem(done, parent_obj.i, KeyVal(key), dest_obj)

RECURSIVE PatchSources(_, _, _)
PatchSources(st, sources, dest) ==
  IF sources = << >> \/ st.err # "none" THEN st
  ELSE PatchSources(Patch(st, Head(sources), dest), Tail(sources), dest)

RECURSIVE set_sources(_, _)
set_sources(st, links) ==
  IF links = << >> \/ st.err # "none" THEN st
  ELSE IF Head(links).dest \notin DOMAIN st.object_cache
       THEN Fail(st, "KeyError")
       ELSE set_sources(PatchSources(st, Head(links).sources,
                                     Head(links).dest),
                        Tail(links))

\* link_manager_cls() at the start of a call
NewLinks(h0) ==
  [heap |-> << >>, heap0 |-> h0, object_cache |-> << >>,
   links |-> << >>, parent_deconstructors |-> << >>,
   events |-> << >>, patched |-> << >>, visits |-> << >>, err |-> "none"]

\* return obj
returned(data, r, st) ==
  [data |-> data,
   obj |-> IF st.err = "none" THEN r.obj ELSE IntVal(0),
   heap |-> st.heap,
   err |-> st.err,
   object_cache |-> r.st.object_cache,
   links |-> r.st.links,
   parent_deconstructors |-> r.st.parent_deconstructors,
   events |-> r.st.events,
   patched |-> st.patched,
   visits |-> r.st.visits]

\* a call that returns without the resolution pass
linked_unresolved(data, r) == returned(data, r, r.st)

\* link_manager.set_sources()
linked(data, r) == returned(data, r, set_sources(r.st, r.st.links))

\* Preserializer.depreserialize; h0 holds the objects a leaf may refer to
depreserialize(reg, h0, data) ==
  linked(data, depre(reg, data, << >>, NoDecon, NewLinks(h0)))

Depreserialize(data) ==
  /\ op \in {"none", "build", "register", "preserialize"}
  /\ dec' = depreserialize(Registry, heap, data)
  /\ op' = "depreserialize"
  /\ UNCHANGED <<deconstructors, versions, types, regLog, heap, enc, coded>>

\* depreserialize(preserialize(x))
RoundTrip ==
  /\ op = "preserialize"
  /\ enc.err = "none"
  /\ Depreserialize(enc.data)

\* Preserializer.register(cls, deconstructor_cls, name=..., version=...)
Register(call) ==
  /\ op \in {"none", "register"}
  /\ Len(regLog) < MaxRegs
  /\ LET reg == register(Registry, call)
     IN /\ deconstructors' = reg.deconstructors
        /\ versions' = reg.versions
        /\ types' = reg.types
        /\ regLog' = Append(regLog, [call |-> call, err |-> reg.err])
  /\ op' = "register"
  /\ UNCHANGED <<heap, enc, dec, coded>>

Next ==
  \/ Build
  \/ \E r \in Roots(heap), o \in Oracles(heap) : Preserialize(r, o)
  \/ \E v \in Primitives : op = "none" /\ Depreserialize(Leaf(v))
  \/ RoundTrip

Spec == InitTest /\ [][Next]_vars

NextPairs ==
  \/ BuildPairs
  \/ \E r \in Roots(heap), o \in Oracles(heap) : Preserialize(r, o)
  \/ RoundTrip

SpecPairs == InitTest /\ [][NextPairs]_vars

(***************************************************************************)
(* Registration: a JsonPreserializer, the parrot and the egg of            *)
(* JsonTests.setUp, and register calls for their classes.                  *)
(***************************************************************************)
\* <<Parrot(), Egg()>>
Fixture ==
  << Obj(Parrot, << >>, <<Entry(StrVal(is_dead), True),
                          Entry(StrVal(from_egg), NoneValue)>>),
     Obj(Egg, << >>, <<Entry(StrVal(from_parrot), NoneValue)>>) >>

RegNames == {NoName, <<"p">>, <<"1">>}
RegVersions == {None} \cup 1..MaxVersion

Calls ==
  {Row(cls, "None", NoName, None) : cls \in {Parrot, Egg}} \cup
  {Row(cls, "InstanceDeconstructor", name, version) :
     cls \in {Parrot, Egg}, name \in RegNames, version \in RegVersions}

\* tagged nodes a caller can hand to depreserialize
Tagged ==
  {MapNode(<<Entry(TYPE, Leaf(StrVal(name)))>>) :
     name \in {lower(Parrot), lower(Egg), <<"p">>}} \cup
  {MapNode(<<Entry(TYPE, Leaf(StrVal(name))),
             Entry(VERSION, Leaf(IntVal(version)))>>) :
     name \in {lower(Parrot), lower(Egg), <<"p">>}, version \in 1..MaxVersion}

InitReg ==
  /\ deconstructors = JsonPreserializer.deconstructors
  /\ versions = JsonPreserializer.versions
  /\ types = JsonPreserializer.types
  /\ regLog = << >>
  /\ heap = Fixture
  /\ op = "none"
  /\ enc = NoEnc
  /\ dec = NoDec
  /\ coded = NoKey

NextReg ==
  \/ \E call \in Calls : Register(call)
  \/ \E r \in {ObjRef(1), ObjRef(2)} : Preserialize(r, << >>)
  \/ \E data \in Tagged : op # "preserialize" /\ Depreserialize(data)
  \/ RoundTrip

SpecReg == InitReg /\ [][NextReg]_vars

(***************************************************************************)
(* One register call with any wire tag over TagChars.                      *)
(***************************************************************************)
TagChars == {"a", "1", ".", escape_char, "-"}
Tags == UNION {[1..n -> TagChars] : n \in 0..MaxTagLen}

NextTag ==
  \E name \in Tags \cup {NoName} :
    /\ regLog = << >>
    /\ Register(Row(Parrot, "InstanceDeconstructor", name, None))

SpecTag == InitReg /\ [][NextTag]_vars

(***************************************************************************)
(* IdentifierEscapeEncoder(char) on the keys and tokens a caller hands in. *)
(***************************************************************************)
KeyAlphabet == {"a", "_", "1", escape_char}
EscapeChars == {escape_char, "_", "a"}
Keys == UNION {[1..n -> KeyAlphabet] : n \in 0..MaxKeyLen}

\* IdentifierEscapeEncoder(char).encode(s)
Encode(char, s) ==
  /\ coded' = [call |-> "encode", char |-> char, s |-> s,
              out |-> encode(char, s).s, err |-> encode(char, s).err,
              of |-> << >>]
  /\ UNCHANGED <<deconstructors, versions, types, regLog, heap, op, enc, dec>>

\* IdentifierEscapeEncoder(char).decode(s) on the token encode returned
DecodeEncoded ==
  /\ coded.call = "encode"
  /\ coded.err = "none"
  /\ coded' = [call |-> "decode", char |-> coded.char, s |-> coded.out,
              out |-> decode(coded.char, coded.out), err |-> "none",
              of |-> coded.s]
  /\ UNCHANGED <<deconstructors, versions, types, regLog, heap, op, enc, dec>>

\* IdentifierEscapeEncoder(char).decode(s) on any token
DecodeToken(char, s) ==
  /\ coded.call = "none"
  /\ coded' = [call |-> "token", char |-> char, s |-> s,
              out |-> decode(char, s), err |-> "none", of |-> << >>]
  /\ UNCHANGED <<deconstructors, versions, types, regLog, heap, op, enc, dec>>

NextKey ==
  \/ \E char \in EscapeChars, s \in Keys : coded.call # "token" /\ Encode(char, s)
  \/ DecodeEncoded
  \/ \E char \in EscapeChars, s \in Keys : DecodeToken(char, s)

SpecKey == InitTest /\ [][NextKey]_vars

(***************************************************************************)
(* depreserialize on wire trees a caller hands in: lists and tagged nodes  *)
(* over leaves, empty containers, untagged and unregistered nodes and      *)
(* reference markers, well-formed or not.  Calls follow one another on the *)
(* same Preserializer.                                                     *)
(***************************************************************************)
WireRefs ==
  {<<"#">>, <<"#", "/", "0">>, <<"#", "/", "1">>, <<"/", "0">>, <<"#", "0">>}

WireMarker(addr) == MapNode(<<Entry(KEY, Leaf(StrVal(addr)))>>)

\* a mapping_type: tag and version (NoName, None: absent), the positional
\* arguments under DATA and the attribute keys, in either order
WireNode(tag, version, args, kwargs, kwargsFirst) ==
  MapNode((IF tag # NoName THEN <<Entry(TYPE, Leaf(StrVal(tag)))>>
           ELSE << >>) \o
          (IF version # None THEN <<Entry(VERSION, Leaf(IntVal(version)))>>
           ELSE << >>) \o
          (IF kwargsFirst THEN kwargs ELSE << >>) \o
          (IF args # << >> THEN <<Entry(DATA, ListNode(args))>> ELSE << >>) \o
          (IF kwargsFirst THEN << >> ELSE kwargs))

\* tag and version of a node: absent, registered by setUp, or not
WireHeads ==
  {<<NoName, None>>, <<NoName, 2>>, <<lower(dict), None>>,
   <<lower(tuple), None>>, <<lower(Parrot), 2>>, <<lower(Parrot), None>>,
   <<lower(Egg), None>>, <<<<"p">>, None>>}

WireLeaves ==
  {Leaf(IntVal(1)), ListNode(<< >>), MapNode(<< >>),
   WireNode(<<"p">>, None, << >>, << >>, FALSE)}
  \cup {WireMarker(addr) : addr \in WireRefs}

WireAttrs ==
  {<< >>} \cup
  {<<Entry(<<"a">>, item)>> :
     item \in {Leaf(IntVal(1)), WireMarker(<<"#">>), MapNode(<< >>)}}

WireItems == UNION {[1..n -> WireLeaves] : n \in 0..MaxWire}

WireArgs ==
  UNION {[1..n -> {Leaf(IntVal(1)), ListNode(<< >>), MapNode(<< >>),
                   WireMarker(<<"#">>), WireMarker(<<"#", "/", "0">>)}] :
           n \in 0..MaxWire}

\* lists of lists of markers: links to more than one destination
WireInner ==
  {ListNode(<<WireMarker(<<"#">>), WireMarker(<<"#", "/", "1">>)>>),
   ListNode(<<WireMarker(<<"#">>)>>),
   ListNode(<<WireMarker(<<"#", "/", "0">>)>>)}

WireNested == {ListNode(<<a, b>>) : a, b \in WireInner}

\* tagged nodes whose "" key holds an empty list
WireEmptyArgs ==
  {MapNode(<<Entry(TYPE, Leaf(StrVal(tag))),
             Entry(DATA, ListNode(<< >>))>> \o kwargs) :
     tag \in {lower(Egg), lower(tuple), lower(dict)}, kwargs \in WireAttrs}

Wire ==
  WireLeaves
  \cup {ListNode(items) : items \in WireItems}
  \cup WireNested
  \cup WireEmptyArgs
  \cup {WireNode(head[1], head[2], args, kwargs, first) :
          head \in WireHeads, args \in WireArgs, kwargs \in WireAttrs,
          first \in BOOLEAN}

\* Preserializer.depreserialize(data), after any earlier call
Decode(data) ==
  /\ op \in {"none", "depreserialize"}
  /\ dec' = depreserialize(Registry, heap, data)
  /\ op' = "depreserialize"
  /\ UNCHANGED <<deconstructors, versions, types, regLog, heap, enc, coded>>

\* what a second call on the same Preserializer is handed
WireAgain ==
  {Leaf(IntVal(1)),
   ListNode(<<ListNode(<< >>), WireMarker(<<"#", "/", "0">>)>>),
   ListNode(<<WireMarker(<<"#">>)>>),
   WireNode(lower(Egg), None, << >>,
            <<Entry(<<"a">>, WireMarker(<<"#">>))>>, FALSE)}

NextDec ==
  \/ \E data \in Wire : op = "none" /\ Decode(data)
  \/ \E data \in WireAgain : op = "depreserialize" /\ Decode(data)

SpecDec == InitTest /\ [][NextDec]_vars

\* one call of either kind: preserialize of a graph the caller built, with
\* the round trip of its result, or depreserialize of a wire tree
NextWalk ==
  \/ Build
  \/ \E r \in Roots(heap), o \in Oracles(heap) : Preserialize(r, o)
  \/ \E data \in Wire : op = "none" /\ Decode(data)
  \/ RoundTrip

SpecWalk == InitTest /\ [][NextWalk]_vars

(***************************************************************************)
(* Calls that follow one another on one Preserializer: the caller builds a *)
(* graph, then calls preserialize and depreserialize in any order.         *)
(***************************************************************************)
CallPreserialize(root, oracle) ==
  /\ op \in {"build", "preserialize", "depreserialize"}
  /\ root.k = "obj" /\ root.i \in 1..Len(heap)
  /\ enc' = preserialize(Registry, heap, root, oracle)
  /\ op' = "preserialize"
  /\ UNCHANGED <<deconstructors, versions, types, regLog, heap, dec, coded>>

CallDepreserialize(data) ==
  /\ op \in {"preserialize", "depreserialize"}
  /\ dec' = depreserialize(Registry, heap, data)
  /\ op' = "depreserialize"
  /\ UNCHANGED <<deconstructors, versions, types, regLog, heap, enc, coded>>

NextCalls ==
  \/ BuildPairs
  \/ \E r \in Roots(heap), o \in Oracles(heap) : CallPreserialize(r, o)
  \/ \E data \in WireAgain : CallDepreserialize(data)
  \/ CallDepreserialize(enc.data)

SpecCalls == InitTest /\ [][NextCalls]_vars

(***************************************************************************)
(* Reading object graphs and wire trees.                                   *)
(***************************************************************************)
Cell(o) ==
  [k \in 1..Len(o.items) |-> o.items[k]] \o
  [k \in 1..Len(o.ents) |-> o.ents[k].val]

Succ(h, i) ==
  {Cell(h[i])[k].i : k \in {j \in 1..Len(Cell(h[i])) : Cell(h[i])[j].k = "obj"}}

RECURSIVE Closure(_, _)
Closure(h, S) ==
  LET T == S \cup UNION {Succ(h, i) : i \in S}
  IN IF T = S THEN S ELSE Closure(h, T)

\* the objects of h reachable from value v
Reach(h, v) == IF v.k = "obj" THEN Closure(h, {v.i}) ELSE {}

Cyclic(h, v) == \E i \in Reach(h, v) : i \in Closure(h, Succ(h, i))

\* how many cells of the graph under v hold object i
InDegree(h, v, i) ==
  LET n(j) == Cardinality({k \in 1..Len(Cell(h[j])) : Cell(h[j])[k] = ObjRef(i)})
      ids == Reach(h, v)
      sum[S \in SUBSET ids] ==
        IF S = {} THEN 0
        ELSE LET j == CHOOSE x \in S : TRUE IN n(j) + sum[S \ {j}]
  IN sum[ids]

Shared(h, v) == \E i \in Reach(h, v) : InDegree(h, v, i) >= 2

\* every value of the graph under v has a registry entry (or is a list)
AllRegistered(reg, h, v) ==
  /\ TypeOf(h, v) = list \/ get_deconstructor_from_type(reg, TypeOf(h, v)).err = "none"
  /\ \A i \in Reach(h, v) : \A k \in 1..Len(Cell(h[i])) :
       LET t == TypeOf(h, Cell(h[i])[k])
       IN t = list \/ get_deconstructor_from_type(reg, t).err = "none"

\* a reference marker is left somewhere in the graph under v
HasMarker(h, v) ==
  \/ v.k = "marker"
  \/ \E i \in Reach(h, v) : \E k \in 1..Len(Cell(h[i])) :
       Cell(h[i])[k].k = "marker"

Lookup(ents, key) ==
  IF \E k \in 1..Len(ents) : ents[k].key = key
  THEN ents[CHOOSE k \in 1..Len(ents) : ents[k].key = key].val
  ELSE Marker(<<>>)

SameShape(o1, o2) ==
  /\ o1.cls = o2.cls
  /\ Len(o1.items) = Len(o2.items)
  /\ Len(o1.ents) = Len(o2.ents)
  /\ {o1.ents[k].key : k \in 1..Len(o1.ents)} =
     {o2.ents[k].key : k \in 1..Len(o2.ents)}

Children(o1, o2) ==
  [k \in 1..Len(o1.items) |-> <<o1.items[k], o2.items[k]>>] \o
  [k \in 1..Len(o1.ents) |-> <<o1.ents[k].val, Lookup(o2.ents, o1.ents[k].key)>>]

\* the graph under v1 in h1 and the graph under v2 in h2 are the same graph:
\* todo pairs the positions still to compare, f the objects paired so far
RECURSIVE Match(_, _, _, _)
Match(h1, h2, todo, f) ==
  IF todo = << >> THEN TRUE
  ELSE LET v1 == Head(todo)[1]
           v2 == Head(todo)[2]
       IN IF v1.k # "obj" THEN v1 = v2 /\ Match(h1, h2, Tail(todo), f)
          ELSE IF v2.k # "obj" THEN FALSE
          ELSE IF \E k \in 1..Len(f) : f[k][1] = v1.i
          THEN /\ \E k \in 1..Len(f) : f[k] = <<v1.i, v2.i>>
               /\ Match(h1, h2, Tail(todo), f)
          ELSE IF \E k \in 1..Len(f) : f[k][2] = v2.i THEN FALSE
          ELSE /\ SameShape(h1[v1.i], h2[v2.i])
               /\ Match(h1, h2, Tail(todo) \o Children(h1[v1.i], h2[v2.i]),
                        Append(f, <<v1.i, v2.i>>))

SameGraph(h1, v1, h2, v2) == Match(h1, h2, << <<v1, v2>> >>, << >>)

\* attribute equality of acyclic graphs: same types and equal parts
RECURSIVE Equal(_, _, _, _)
Equal(h1, v1, h2, v2) ==
  IF v1.k # "obj" THEN v1 = v2
  ELSE /\ v2.k = "obj"
       /\ SameShape(h1[v1.i], h2[v2.i])
       /\ \A k \in 1..Len(Children(h1[v1.i], h2[v2.i])) :
            Equal(h1, Children(h1[v1.i], h2[v2.i])[k][1],
                  h2, Children(h1[v1.i], h2[v2.i])[k][2])

\* the state after depreserialize(preserialize(x)) for an object x
RoundTripped ==
  /\ op = "depreserialize"
  /\ enc.root.k = "obj"
  /\ enc.err = "none"
  /\ dec.data = enc.data

PairsForm(o) ==
  /\ o.cls = dict
  /\ \E k \in 1..Len(o.ents) :
       ~(o.ents[k].key.ty = STR /\ is_identifier(o.ents[k].key.s))

\* the positions of a wire tree in the order of the walk: a positional
\* argument i of the node at p is at p + ("", i), an attribute at p + (ekey)
RECURSIVE Positions(_, _)
Positions(data, path) ==
  LET below(k) ==
        IF data.ents[k].key \in {TYPE, VERSION} THEN << >>
        ELSE IF data.ents[k].key = DATA
        THEN Flatten([i \in 1..Len(data.ents[k].val.items) |->
               Positions(data.ents[k].val.items[i],
                         path \o <<StrKey(DATA), IntKey(i - 1)>>)])
        ELSE Positions(data.ents[k].val, path \o <<StrKey(data.ents[k].key)>>)
  IN <<[path |-> path, node |-> data]>> \o
     (CASE data.t = "list" ->
             Flatten([i \in 1..Len(data.items) |->
                        Positions(data.items[i], path \o <<IntKey(i - 1)>>)])
        [] data.t = "map" /\ ~is_ref(data) ->
             Flatten([k \in 1..Len(data.ents) |-> below(k)])
        [] OTHER -> << >>)

\* the [key, value] list DictDeconstructor makes for entry n of dict id
PairOf(id, n) == [k |-> "pair", ty |-> << >>, s |-> << >>, i |-> <<id, n>>]
Nowhere == [k |-> "nowhere", ty |-> << >>, s |-> << >>, i |-> 0]

\* what the graph under v holds at a position of the wire tree
RECURSIVE At(_, _, _)
At(h, v, path) ==
  IF path = << >> THEN v
  ELSE IF v.k = "pair"
  THEN IF Head(path) = IntKey(0)
       THEN At(h, h[v.i[1]].ents[v.i[2]].key, Tail(path))
       ELSE IF Head(path) = IntKey(1)
       THEN At(h, h[v.i[1]].ents[v.i[2]].val, Tail(path))
       ELSE Nowhere
  ELSE IF v.k # "obj" THEN Nowhere
  ELSE
  LET o == h[v.i]
      key == Head(path)
      arg == Len(path) >= 2 /\ key = StrKey(DATA) /\ path[2].ty = "int"
      named == {k \in 1..Len(o.ents) :
                  key = StrKey(encode(escape_char, KeyStr(o.ents[k].key)).s)}
  IN CASE o.cls = list ->
            IF key.ty = "int" /\ key.i < Len(o.items)
            THEN At(h, o.items[key.i + 1], Tail(path)) ELSE Nowhere
       [] o.cls = tuple ->
            IF arg /\ path[2].i < Len(o.items)
            THEN At(h, o.items[path[2].i + 1], Tail(Tail(path))) ELSE Nowhere
       [] PairsForm(o) ->
            IF arg /\ path[2].i < Len(o.ents)
            THEN At(h, PairOf(v.i, path[2].i + 1), Tail(Tail(path)))
            ELSE Nowhere
       [] OTHER ->
            IF named # {} THEN At(h, o.ents[CHOOSE k \in named : TRUE].val,
                                  Tail(path))
            ELSE Nowhere

Same(a, b) == a.k = b.k /\ a = b

(***************************************************************************)
(* Properties of graphs and round trips.                                   *)
(***************************************************************************)
\* C1: for every graph of registered types that contains a cycle, whatever
\* the types on the cycle, depreserialize(preserialize(x)) succeeds and
\* returns the same graph, identities included, with no reference marker
\* left in it.
C1_CycleIntact ==
  (RoundTripped /\ AllRegistered(Registry, heap, enc.root)
                /\ Cyclic(heap, enc.root)) =>
    /\ dec.err = "none"
    /\ ~HasMarker(dec.heap, dec.obj)
    /\ SameGraph(heap, enc.root, dec.heap, dec.obj)

\* C2: in the tree preserialize returns, every object of the graph occurs,
\* the first position of an identity in the order of the walk holds its
\* full substructure, and every later position of that identity holds the
\* reference marker to the path of the first.
C2_OneFullPerIdentity ==
  (op = "preserialize" /\ enc.root.k = "obj" /\ enc.err = "none") =>
    LET ps == Positions(enc.data, << >>)
        what(k) == At(heap, enc.root, ps[k].path)
        objs == {k \in 1..Len(ps) : what(k).k \in {"obj", "pair"}}
        first(k) == CHOOSE j \in objs :
                      /\ Same(what(j), what(k))
                      /\ \A m \in objs : m < j => ~Same(what(m), what(k))
    IN /\ \A i \in Reach(heap, enc.root) :
            \E k \in objs : Same(what(k), ObjRef(i))
       /\ \A k \in objs :
            IF first(k) = k
            THEN ps[k].node.t \in {"list", "map"} /\ ~is_ref(ps[k].node)
            ELSE ps[k].node = make_ref(ps[first(k)].path)

\* the objects depreserialize builds for the graph under v: one per object,
\* and one list per [key, value] pair of a dict in list-of-pairs form
Built(h, v, cls) ==
  LET ids == Reach(h, v)
      pairs[S \in SUBSET ids] ==
        IF S = {} THEN 0
        ELSE LET j == CHOOSE x \in S : TRUE
             IN (IF PairsForm(h[j]) THEN Len(h[j].ents) ELSE 0) + pairs[S \ {j}]
  IN Cardinality({i \in ids : h[i].cls = cls})
       + (IF cls = list THEN pairs[ids] ELSE 0)

C4_AcyclicRoundTrip ==
  (RoundTripped /\ AllRegistered(Registry, heap, enc.root)
                /\ ~Cyclic(heap, enc.root)) =>
    /\ dec.err = "none"
    /\ Equal(heap, enc.root, dec.heap, dec.obj)

\* the type t is registered with no Deconstructor and no version
PassThrough(t) ==
  /\ <<t, None>> \in DOMAIN deconstructors
  /\ deconstructors[<<t, None>>] = NoDecon
  /\ t \notin DOMAIN versions

\* C5: preserialize and depreserialize of a primitive scalar of a type
\* registered without Deconstructor return it unchanged and leave the
\* identity cache, the object cache and the link table empty.
C5_PrimitivePassThrough ==
  /\ (op = "preserialize" /\ enc.root.k = "prim"
        /\ PassThrough(enc.root.ty)) =>
       /\ enc.err = "none"
       /\ enc.data = Leaf(enc.root)
       /\ enc.path_cache = << >>
       /\ enc.links = << >>
  /\ (op = "depreserialize" /\ dec.data.t = "leaf"
        /\ dec.data.val.k = "prim" /\ PassThrough(dec.data.val.ty)) =>
       /\ dec.err = "none"
       /\ dec.obj = dec.data.val
       /\ dec.object_cache = << >>
       /\ dec.links = << >>

\* preserialize("Ni!") has returned "Ni!"
C5_Witness ==
  /\ op = "preserialize"
  /\ enc.root = StrVal(<<"N", "i", "!">>)
  /\ enc.data = Leaf(StrVal(<<"N", "i", "!">>))

\* the form preserialize gives a dict: its tag and one key per entry, or its
\* tag and the list of [key, value] pairs under the empty key
AttributeForm(o) ==
  MapNode(<<Entry(TYPE, Leaf(StrVal(lower(dict))))>> \o
          [k \in 1..Len(o.ents) |->
             Entry(encode(escape_char, o.ents[k].key.s).s,
                   enc.data.ents[k + 1].val)])

IsPairNode(node, key) ==
  /\ node.t = "list"
  /\ Len(node.items) = 2
  /\ node.items[1] = Leaf(key)

PairsUnderEmptyKey(o) ==
  /\ enc.data.t = "map"
  /\ Len(enc.data.ents) = 2
  /\ enc.data.ents[1] = Entry(TYPE, Leaf(StrVal(lower(dict))))
  /\ enc.data.ents[2].key = DATA
  /\ enc.data.ents[2].val.t = "list"
  /\ Len(enc.data.ents[2].val.items) = Len(o.ents)
  /\ \A k \in 1..Len(o.ents) :
       IsPairNode(enc.data.ents[2].val.items[k], o.ents[k].key)

\* C6: preserialize of a dict gives the attribute form exactly when every
\* key is an identifier string and otherwise the pairs, in iteration order,
\* under the empty key; depreserialize of what it gave returns the dict.
C6_MappingForms ==
  (enc.root.k = "obj" /\ enc.err = "none" /\ op # "build"
     /\ op # "none" /\ heap[enc.root.i].cls = dict
     /\ heap[enc.root.i].ents # << >>) =>
    LET o == heap[enc.root.i]
    IN /\ IF PairsForm(o) THEN PairsUnderEmptyKey(o)
          ELSE /\ enc.data.t = "map"
               /\ Len(enc.data.ents) = Len(o.ents) + 1
               /\ enc.data = AttributeForm(o)
       /\ RoundTripped =>
            /\ dec.err = "none"
            /\ SameGraph(heap, enc.root, dec.heap, dec.obj)

\* C10: preserialize of a graph that holds an object of an unregistered
\* type other than list fails with UnregisteredTypeError and returns no
\* tree.
C10_UnregisteredFails ==
  (op = "preserialize" /\ ~AllRegistered(Registry, heap, enc.root)) =>
    /\ enc.err = "UnregisteredTypeError"
    /\ enc.data = NoEnc.data

(***************************************************************************)
(* Properties of the registry.                                             *)
(***************************************************************************)
\* the register calls for cls that did not raise, oldest first
CallsFor(cls) ==
  SelectSeq(regLog, LAMBDA r : r.call.cls = cls /\ r.err = "none")

Last(seq) == seq[Len(seq)]

\* the wire tag a register call resolves to
Resolved(call) == IF call.name = NoName THEN lower(call.cls) ELSE call.name

\* what preserialize gives an instance under the Deconstructor of a call:
\* the call's tag, and the version key exactly when the call named a version
StampedBy(call) ==
  /\ enc.err = "none"
  /\ enc.data.t = "map"
  /\ HasKey(enc.data, TYPE)
  /\ Get(enc.data, TYPE) = Leaf(StrVal(Resolved(call)))
  /\ HasKey(enc.data, VERSION) <=> call.version # None
  /\ call.version # None =>
       Get(enc.data, VERSION) = Leaf(IntVal(call.version))

\* C7 as stated: preserialize of an instance of T uses the Deconstructor and
\* stamps the version of the most recent register call for T, whether or
\* not that call named a version.
C7_MostRecentCall ==
  (op = "preserialize" /\ enc.root.k = "obj"
     /\ CallsFor(heap[enc.root.i].cls) # << >>
     /\ Last(CallsFor(heap[enc.root.i].cls)).call.dcls # "None") =>
    StampedBy(Last(CallsFor(heap[enc.root.i].cls)).call)

\* C7: preserialize of an instance of T uses the Deconstructor and stamps
\* the version of the most recent register call for T that named a version;
\* when no call for T named a version it follows the most recent call for T
\* and writes no version key; with no call for T it fails.
C7_VersionedCallWins ==
  (op = "preserialize" /\ enc.root.k = "obj") =>
    LET calls == CallsFor(heap[enc.root.i].cls)
        versioned == SelectSeq(calls, LAMBDA r : r.call.version # None)
        used == IF versioned # << >> THEN Last(versioned).call
                ELSE Last(calls).call
    IN IF calls = << >> THEN enc.err = "UnregisteredTypeError"
       ELSE IF used.dcls = "None"
       THEN enc.err = "none" /\ enc.data = Leaf(enc.root)
       ELSE StampedBy(used)

\* register(Parrot, version=1), register(Parrot), preserialize(Parrot()):
\* the tree carries version 1
C7_Witness ==
  /\ op = "preserialize"
  /\ enc.root = ObjRef(1)
  /\ Len(regLog) = 2
  /\ regLog[1].call = Row(Parrot, "InstanceDeconstructor", NoName, 1)
  /\ regLog[2].call = Row(Parrot, "InstanceDeconstructor", NoName, None)
  /\ HasKey(enc.data, VERSION)
  /\ Get(enc.data, VERSION) = Leaf(IntVal(1))

\* C8: depreserialize of a tagged node whose (tag, version) pair an earlier
\* register call with a Deconstructor gave builds an object of the type
\* last registered under that pair, whatever was registered afterwards.
C8_EarlierPairsDecodable ==
  (op = "depreserialize" /\ dec.data.t = "map" /\ HasKey(dec.data, TYPE)) =>
    LET tag == Get(dec.data, TYPE).val.s
        version == IF HasKey(dec.data, VERSION)
                   THEN Get(dec.data, VERSION).val.i ELSE None
        gave == SelectSeq(regLog, LAMBDA r :
                  /\ r.err = "none"
                  /\ r.call.dcls # "None"
                  /\ Resolved(r.call) = tag
                  /\ r.call.version = version)
    IN gave # << >> =>
         /\ dec.err = "none"
         /\ dec.obj.k = "obj"
         /\ dec.heap[dec.obj.i].cls = Last(gave).call.cls

(***************************************************************************)
(* Properties of wire tags.                                                *)
(***************************************************************************)
\* the identifiers among the tags a call can resolve to
Identifiers ==
  {s \in Tags \cup {lower(Parrot)} :
                /\ Len(s) >= 1
                /\ s[1] \in Letters
                /\ \A k \in 2..Len(s) : s[k] \in Letters \cup Digits}

\* zero or more identifiers, each behind a '.'
RECURSIVE DotTails(_)
DotTails(n) ==
  IF n = 0 THEN {<< >>}
  ELSE {<< >>} \cup {<<".">> \o i \o t : i \in Identifiers, t \in DotTails(n - 1)}

\* an optional escape character, then identifiers joined by '.'
DottedIdentifiers ==
  {e \o t : e \in {<< >>, <<escape_char>>},
            t \in {<< >>} \cup {i \o d : i \in Identifiers,
                                         d \in DotTails(MaxTagLen \div 2)}}

\* an optional escape character, an optional identifier, then zero or more
\* identifiers each behind a '.'
TypeNames ==
  {e \o i \o d : e \in {<< >>, <<escape_char>>},
                 i \in {<< >>} \cup Identifiers,
                 d \in DotTails(MaxTagLen \div 2)}

Registered(call) ==
  /\ types = Put(JsonPreserializer.types,
                 <<Resolved(call), call.version>>, call.cls)
  /\ deconstructors =
       Put(JsonPreserializer.deconstructors, <<call.cls, call.version>>,
           Deconstructor(call.dcls, call.cls, call.name, call.version))

Untouched ==
  /\ types = JsonPreserializer.types
  /\ deconstructors = JsonPreserializer.deconstructors
  /\ versions = JsonPreserializer.versions
  /\ enc = NoEnc
  /\ dec = NoDec

\* C9 as stated: a register call raises, before anything is processed,
\* exactly when the resolved tag is not an optional escape character
\* followed by identifiers joined by '.'.
C9_DottedIdentifierTags ==
  (op = "register" /\ Len(regLog) = 1) =>
    /\ regLog[1].err = "PreserializeError"
         <=> Resolved(regLog[1].call) \notin DottedIdentifiers
    /\ IF regLog[1].err = "none" THEN Registered(regLog[1].call)
       ELSE Untouched

\* C9: a register call raises PreserializeError, before anything is
\* processed and leaving the tables alone, exactly when the resolved tag is
\* not an optional escape character, an optional identifier and then zero
\* or more identifiers each behind a '.'; every other tag is registered.
C9_TypeNameTags ==
  (op = "register" /\ Len(regLog) = 1) =>
    /\ regLog[1].err = "PreserializeError"
         <=> Resolved(regLog[1].call) \notin TypeNames
    /\ IF regLog[1].err = "none" THEN Registered(regLog[1].call)
       ELSE Untouched

\* register(Parrot, name=".a") has been accepted
C9_Witness ==
  /\ op = "register"
  /\ Len(regLog) = 1
  /\ regLog[1].call.name = <<".", "a">>
  /\ regLog[1].err = "none"
  /\ <<<<".", "a">>, None>> \in DOMAIN types

(***************************************************************************)
(* Properties of depreserialize on wire trees.                             *)
(***************************************************************************)
\* the nodes of a wire tree
NodesOf(data) ==
  {Positions(data, << >>)[k].node : k \in 1..Len(Positions(data, << >>))}

\* every reference marker of the tree carries an address ref_path accepts
MarkersWellFormed(data) ==
  \A node \in NodesOf(data) : is_ref(node) => ref_path(node).err = "none"

\* a mapping node, not a marker, whose tag and version (absent ones
\* included) are no registered (tag, version) pair
Unmatched(node) ==
  /\ node.t = "map"
  /\ ~is_ref(node)
  /\ \/ ~HasKey(node, TYPE)
     \/ <<Get(node, TYPE).val.s,
          IF HasKey(node, VERSION) THEN Get(node, VERSION).val.i ELSE None>>
          \notin DOMAIN types

\* C11: depreserialize of a tree that holds a mapping node, not a reference
\* marker, whose tag and version match no registered pair (an absent tag
\* included) and that holds no other defect, fails with
\* UnregisteredTypeError.
C11_UnmatchedNodeFails ==
  (op = "depreserialize" /\ MarkersWellFormed(dec.data)
     /\ \E node \in NodesOf(dec.data) : Unmatched(node)) =>
    dec.err = "UnregisteredTypeError"

\* a node at which the walk stops: no registered pair, or a marker whose
\* address ref_path does not take
Defect(node) ==
  Unmatched(node) \/ (is_ref(node) /\ ref_path(node).err # "none")

\* the positions of the tree in walk order, up to the first defect
Walked(data) ==
  LET ps == Positions(data, << >>)
      bad == {k \in 1..Len(ps) : Defect(ps[k].node)}
  IN IF bad = {} THEN ps
     ELSE SubSeq(ps, 1, CHOOSE k \in bad : \A j \in bad : k <= j)

\* the path _depreserialize gives a position: arguments sit at path + (i,)
DecodePath(path) == SelectSeq(path, LAMBDA key : key # StrKey(DATA))

\* a marker whose address does not start with "#"
Unsupported(node) ==
  /\ is_ref(node)
  /\ Get(node, KEY).t = "leaf" /\ Get(node, KEY).val.ty = STR
  /\ ~(Len(Get(node, KEY).val.s) >= 1 /\ Get(node, KEY).val.s[1] = "#")

\* C12: when the walk of depreserialize comes to a reference marker whose
\* address is not of the recognized syntax, the call fails with
\* JsonReferenceError there: no link has that marker as its source and no
\* patch has been applied.
C12_UnsupportedAtVisit ==
  (op = "depreserialize" /\ Unsupported(Walked(dec.data)[Len(Walked(dec.data))].node)) =>
    /\ dec.err = "JsonReferenceError"
    /\ dec.patched = << >>
    /\ \A k \in 1..Len(dec.links) : \A n \in 1..Len(dec.links[k].sources) :
         dec.links[k].sources[n] #
           DecodePath(Walked(dec.data)[Len(Walked(dec.data))].path)

\* an unsupported marker is met after a link for an earlier marker has
\* been recorded
C12_Witness ==
  /\ op = "depreserialize"
  /\ Unsupported(Walked(dec.data)[Len(Walked(dec.data))].node)
  /\ dec.err = "JsonReferenceError"
  /\ Len(dec.links) >= 1

(***************************************************************************)
(* Properties of the key encoder.                                          *)
(***************************************************************************)
\* an identifier-like token: a letter or '_', then letters, digits and '_'
IdentifierLike(s) ==
  /\ s # << >>
  /\ s[1] \notin Digits
  /\ \A k \in 1..Len(s) : s[k] \in Letters \cup Digits

\* C13: for every escape character, decode(encode(k)) = k for every key k
\* encode accepts, two different accepted keys never get the same token, and
\* encode raises PreserializeError exactly for the keys that are not
\* identifier-like.
C13_EncodeDecodeInverse ==
  /\ coded.call = "decode" => coded.out = coded.of
  /\ (coded.call = "encode" /\ coded.err = "none") =>
       \A k \in Keys \ {coded.s} :
         encode(coded.char, k).err = "none" =>
           encode(coded.char, k).s # coded.out
  /\ coded.call = "encode" =>
       /\ coded.err \in {"none", "PreserializeError"}
       /\ coded.err = "PreserializeError" <=> ~IdentifierLike(coded.s)

\* a key holding the escape character has been encoded to a longer token
\* and decoded again
C13_Witness ==
  /\ coded.call = "decode"
  /\ \E k \in 1..Len(coded.of) : coded.of[k] = coded.char
  /\ Len(coded.s) > Len(coded.of)

\* s with every escape character written twice
Doubled(char, s) ==
  Flatten([k \in 1..Len(s) |-> IF s[k] = char THEN <<char, char>> ELSE <<s[k]>>])

\* C14 as stated: encode turns the key equal to the escape character into
\* DATA, the key of the positional arguments, turns every other key that
\* holds the escape character into the key with each escape character
\* doubled, and decode gives the key back.
C14_EscapeKeyIsSentinel ==
  /\ (coded.call = "encode" /\ coded.s = <<coded.char>>) =>
       coded.err = "none" /\ coded.out = DATA
  /\ (coded.call = "encode" /\ coded.s # <<coded.char>>
         /\ \E k \in 1..Len(coded.s) : coded.s[k] = coded.char) =>
       coded.err = "none" /\ coded.out = Doubled(coded.char, coded.s)
  /\ coded.call = "decode" => coded.out = coded.of

\* C14: encode turns every key it accepts, the key equal to the escape
\* character included, into the key with each escape character doubled and
\* never into DATA; it rejects every key that is not identifier-like, so
\* with the escape character '$' every key holding it; decode turns the
\* lone escape character into DATA and gives an encoded key back.
C14_EscapeDoubled ==
  /\ (coded.call = "encode" /\ coded.err = "none") =>
       coded.out = Doubled(coded.char, coded.s) /\ coded.out # DATA
  /\ (coded.call = "encode" /\ ~IdentifierLike(coded.s)) =>
       coded.err = "PreserializeError"
  /\ (coded.call = "token" /\ coded.s = <<coded.char>>) => coded.out = DATA
  /\ coded.call = "decode" => coded.out = coded.of

\* the key equal to the escape character has been encoded
C14_Witness ==
  /\ coded.call = "encode"
  /\ coded.s = <<coded.char>>
  /\ coded.err = "none"
  /\ coded.out = <<coded.char, coded.char>>

(***************************************************************************)
(* Properties of calls that follow one another.                            *)
(***************************************************************************)
\* C15: a call starts with caches and tables of its own, so what a call
\* returns depends on its argument and the registry only: preserialize
\* called again on the same object of the same graph returns what it
\* returned before.
C15_CallsIndependent ==
  [][(op = "preserialize" /\ op' = "preserialize" /\ enc'.root = enc.root)
       => enc'.data = enc.data /\ enc'.err = enc.err]_vars

(***************************************************************************)
(* Properties of the walks.                                                *)
(***************************************************************************)
\* path p is a proper prefix of path q
Under(p, q) == Len(p) < Len(q) /\ SubSeq(q, 1, Len(p)) = p

\* C16: preserialize of a graph of registered types, cyclic or not, ends
\* with a result; every object identity the walk meets is descended into
\* exactly once, at its first visit; every later visit of it yields a reference marker to
\* the path of the first visit, is recorded as a source of that path, and
\* nothing below it is visited.
C16_DescendsOnce ==
  (op = "preserialize" /\ enc.root.k = "obj"
     /\ AllRegistered(Registry, heap, enc.root)) =>
    LET vs == enc.visits
        full(i) == {k \in 1..Len(vs) : vs[k].v = ObjRef(i) /\ vs[k].how = "full"}
    IN /\ enc.err = "none"
       /\ Cardinality(full(enc.root.i)) = 1
       /\ \A k \in 1..Len(vs) :
            vs[k].v.k = "obj" => Cardinality(full(vs[k].v.i)) = 1
       /\ \A k \in 1..Len(vs) :
            /\ vs[k].how = "full" =>
                 \A j \in 1..(k - 1) : vs[j].v # vs[k].v
            /\ vs[k].how = "ref" =>
                 /\ \E j \in 1..(k - 1) :
                      /\ vs[j].v = vs[k].v /\ vs[j].how = "full"
                      /\ getitem(enc.data, vs[k].path).data = make_ref(vs[j].path)
                      /\ \E n \in 1..Len(enc.links) :
                           /\ enc.links[n].dest = vs[j].path
                           /\ \E m \in 1..Len(enc.links[n].sources) :
                                enc.links[n].sources[m] = vs[k].path
                 /\ \A j \in 1..Len(vs) : ~Under(vs[k].path, vs[j].path)

\* a graph with a cycle has been encoded: some visit was a repeat visit
C16_Witness ==
  /\ op = "preserialize"
  /\ enc.root.k = "obj"
  /\ Cyclic(heap, enc.root)
  /\ enc.err = "none"
  /\ \E k \in 1..Len(enc.visits) : enc.visits[k].how = "ref"

\* C17: a reference marker is emitted only where the object visited is the
\* very same live object as the one first visited at the marker's target.
\* The objects of the heap stay alive for the whole call; a list made by a
\* Deconstructor (an address beyond the heap) is made once and handed to one
\* visit only, so no such list is ever the object of a marker: each is
\* emitted in full.
C17_MarkerOnlySameObject ==
  (op = "preserialize" /\ enc.err = "none") =>
    \A k \in 1..Len(enc.visits) :
      enc.visits[k].how = "ref" => enc.visits[k].v.i \in 1..Len(heap)

(***************************************************************************)
(* Properties of the marker visits and of the resolution pass.             *)
(***************************************************************************)
\* the walk of the last depreserialize call came to its end: the root is
\* cached, or the root is itself a marker
WalkDone ==
  /\ op = "depreserialize"
  /\ \/ << >> \in DOMAIN dec.object_cache
     \/ (is_ref(dec.data) /\ ref_path(dec.data).err = "none")

\* the indices of the marker positions of a walk, in walk order
MarkerVisits(ps) ==
  SelectSeq([k \in 1..Len(ps) |-> k], LAMBDA k : is_ref(ps[k].node))

\* the target path of the marker at position k
TargetOf(ps, k) == dest_path_of(ref_path(ps[k].node).parts)

\* the node whose path is P has been built before position k is visited:
\* a list or tagged node, earlier in the walk, that is no ancestor of k
BuiltBefore(ps, k, P) ==
  \E j \in 1..(k - 1) :
    /\ ps[j].node.t \in {"list", "map"} /\ ~is_ref(ps[j].node)
    /\ DecodePath(ps[j].path) = P
    /\ ~Under(ps[j].path, ps[k].path)

\* the Deconstructor of the parent of position k: none for the root and
\* for an item of a list
ParentDeconstructor(ps, k) ==
  LET path == ps[k].path
      n == Len(path)
      up == IF n >= 2 /\ path[n - 1] = StrKey(DATA)
            THEN SubSeq(path, 1, n - 2) ELSE SubSeq(path, 1, n - 1)
      j == CHOOSE j \in 1..Len(ps) : ps[j].path = up
  IN IF n = 0 \/ ps[j].node.t = "list" THEN NoDecon
     ELSE get_deconstructor_from_data(Registry, ps[j].node).deconstructor

\* C18: the marker visits of a depreserialize walk, in walk order, are
\* these: a marker whose target path is cached at the visit takes the
\* cached object and records no link; any other marker records exactly one
\* deferred link (its path -> the target path) and the Deconstructor of its
\* parent (none under a list); no marker's own path enters the object
\* cache.  What the visit yields is what the list above it holds at the
\* marker's index until a patch replaces it: the cached object, or the
\* marker itself.
C18_MarkerVisit ==
  WalkDone =>
    LET ps == Positions(dec.data, << >>)
        ms == MarkerVisits(ps)
        recorded(path, dest) ==
          {<<n, m>> \in (1..Len(dec.links)) \X (1..Len(ps)) :
             /\ m <= Len(dec.links[n].sources)
             /\ dec.links[n].sources[m] = path
             /\ dec.links[n].dest = dest}
        from(path) ==
          {<<n, m>> \in (1..Len(dec.links)) \X (1..Len(ps)) :
             /\ m <= Len(dec.links[n].sources)
             /\ dec.links[n].sources[m] = path}
        inList(k) ==
          /\ ps[k].path # << >>
          /\ ParentDeconstructor(ps, k) = NoDecon
          /\ \A m \in 1..Len(dec.patched) :
               dec.patched[m].source # DecodePath(ps[k].path)
        held(path) ==
          dec.heap[dec.object_cache[SubSeq(path, 1, Len(path) - 1)].i]
             .items[path[Len(path)].i + 1]
    IN /\ Len(dec.events) = Len(ms)
       /\ \A n \in 1..Len(ms) :
            LET k == ms[n]
                path == DecodePath(ps[k].path)
                P == TargetOf(ps, k)
            IN /\ dec.events[n].path = path
               /\ dec.events[n].dest = P
               /\ path \notin DOMAIN dec.object_cache
               /\ IF BuiltBefore(ps, k, P)
                  THEN /\ dec.events[n].what = "cached"
                       /\ from(path) = {}
                       /\ inList(k) => held(path) = dec.object_cache[P]
                  ELSE /\ dec.events[n].what = "deferred"
                       /\ Cardinality(recorded(path, P)) = 1
                       /\ Cardinality(from(path)) = 1
                       /\ dec.parent_deconstructors[path] =
                            ParentDeconstructor(ps, k)
                       /\ inList(k) =>
                            held(path) = Marker(Get(ps[k].node, KEY).val.s)

\* one walk met a marker whose target was cached and a marker whose target
\* was not, the latter below a tagged node
C18_Witness ==
  /\ WalkDone
  /\ \E n \in 1..Len(dec.events) : dec.events[n].what = "cached"
  /\ \E n \in 1..Len(dec.events) :
       /\ dec.events[n].what = "deferred"
       /\ dec.parent_deconstructors[dec.events[n].path] # NoDecon

\* the deferred links of the last walk, in the order they were recorded
Deferred ==
  LET at == SelectSeq([n \in 1..Len(dec.events) |-> n],
                      LAMBDA n : dec.events[n].what = "deferred")
  IN [n \in 1..Len(at) |->
        [source |-> dec.events[at[n]].path, dest |-> dec.events[at[n]].dest]]

\* the deferred links grouped by destination: destinations in the order
\* each was first recorded, the sources of one destination in the order
\* they were recorded
DeferredByDestination ==
  LET ds == Deferred
      first(n) == CHOOSE m \in 1..Len(ds) :
                    /\ ds[m].dest = ds[n].dest
                    /\ \A j \in 1..(m - 1) : ds[j].dest # ds[n].dest
      order == SortSeq([n \in 1..Len(ds) |-> n],
                       LAMBDA a, b : \/ first(a) < first(b)
                                     \/ (first(a) = first(b) /\ a < b))
  IN [n \in 1..Len(ds) |-> ds[order[n]]]

PartAt(p, q, c) ==
  /\ c <= Len(p) /\ c <= Len(q)
  /\ SubSeq(p, 1, c - 1) = SubSeq(q, 1, c - 1)
  /\ p[c] # q[c]

\* elements of one sequence are visited by rising index
IndexOrder(paths) ==
  \A j \in 1..Len(paths) : \A i \in 1..(j - 1) : \A c \in 1..Len(paths[i]) :
    (PartAt(paths[i], paths[j], c)
       /\ paths[i][c].ty = "int" /\ paths[j][c].ty = "int") =>
      paths[i][c].i < paths[j][c].i

\* no positional argument of a tagged node is visited after
\* an attribute key of that node; wire paths hold the arguments below "",
\* decode paths hold them at their index
ArgsFirst(paths) ==
  \A j \in 1..Len(paths) : \A i \in 1..(j - 1) : \A c \in 1..Len(paths[i]) :
    (PartAt(paths[i], paths[j], c)
       /\ paths[i][c].ty = "str" /\ paths[i][c] # StrKey(DATA)) =>
      (paths[j][c].ty = "str" /\ paths[j][c] # StrKey(DATA))

\* the paths of the visits of the last preserialize call
EncodeVisits == [k \in 1..Len(enc.visits) |-> enc.visits[k].path]

\* the positions of a wire tree, in the order its lists and mappings
\* enumerate them
PathsOf(ps) == [k \in 1..Len(ps) |-> ps[k].path]

WirePaths(data) == PathsOf(Positions(data, << >>))

DecodedPathsOf(ps) == [k \in 1..Len(ps) |-> DecodePath(ps[k].path)]

DecodePaths(data) == DecodedPathsOf(Positions(data, << >>))

\* a list whose items are all of primitive type
PrimitiveList(o) ==
  /\ o.cls = list
  /\ \A k \in 1..Len(o.items) : o.items[k].k = "prim"

InstanceDecoded ==
  /\ op = "depreserialize"
  /\ dec.err = "none"
  /\ dec.data.t = "map" /\ ~is_ref(dec.data)
  /\ dec.obj.k = "obj"
  /\ dec.heap[dec.obj.i].cls \in {Parrot, Egg}

\* the attributes of the root node, in the order of its mapping
AttributesOf(node) ==
  SelectSeq(node.ents, LAMBDA e : e.key \notin {TYPE, VERSION, DATA})

\* the object has the attribute: Parrot.__init__ sets is_dead and from_egg,
\* Egg.__init__ sets from_parrot, and no node here has them as keys
HasAttr(o, name) == \E k \in 1..Len(o.ents) : o.ents[k].key = StrVal(name)

Initialized(o) ==
  IF o.cls = Egg THEN HasAttr(o, from_parrot)
  ELSE HasAttr(o, is_dead) /\ HasAttr(o, from_egg)

\* C21: the object of a tagged node is built through the initializer
\* exactly when the node has the "" key, an empty list included, and is an
\* empty shell otherwise; every attribute key of the node is then set on
\* that object.
C21_InitializerWhenArgsPresent ==
  InstanceDecoded =>
    /\ Initialized(dec.heap[dec.obj.i]) <=> HasKey(dec.data, DATA)
    /\ \A k \in 1..Len(AttributesOf(dec.data)) :
         HasAttr(dec.heap[dec.obj.i],
                 decode(escape_char, AttributesOf(dec.data)[k].key))

\* C22: once the walk is done and every destination of a deferred link is
\* in the object cache, the resolution pass sets every source on its
\* parent, whatever the Deconstructor of the parent, and the call returns.
C22_ResolutionCompletes ==
  (WalkDone /\ dec.links # << >>
     /\ \A n \in 1..Len(dec.links) :
          dec.links[n].dest \in DOMAIN dec.object_cache) =>
    dec.err = "none"

(***************************************************************************)
(* The registry tables across calls.                                       *)
(***************************************************************************)
\* C23: a register call that fails on the tag grammar leaves the three
\* tables as they were, and so does every preserialize and depreserialize
\* call.
C23_TablesFrame ==
  [][/\ (Len(regLog') = Len(regLog) + 1
          /\ regLog'[Len(regLog')].err # "none") =>
         UNCHANGED <<deconstructors, versions, types>>
     /\ (regLog' = regLog /\ op' \in {"preserialize", "depreserialize"}) =>
         UNCHANGED <<deconstructors, versions, types>>]_vars

\* a register call has failed on its tag after an earlier call had entered
\* a row in the tables
C23_Witness ==
  /\ Len(regLog) = 2
  /\ regLog[1].err = "none"
  /\ regLog[2].err = "PreserializeError"
  /\ DeconstructorRaises(regLog[2].call.cls, regLog[2].call.name)
  /\ types # JsonPreserializer.types

(***************************************************************************)
(* Markers of a tree that preserialize produced.                           *)
(***************************************************************************)
\* the repeat visits of the last preserialize call, in the order of the walk
RepeatVisits == SelectSeq(enc.visits, LAMBDA r : r.how = "ref")

\* the path at which the walk first met the object of a repeat visit
FirstPath(r) ==
  LET k == CHOOSE k \in 1..Len(enc.visits) :
             enc.visits[k].v = r.v /\ enc.visits[k].how = "full"
  IN enc.visits[k].path

\* C24: in the round trip of a tree that preserialize produced, the path a
\* marker resolves to is the path under which depreserialize caches the
\* node the marker stands for, and no two nodes share such a path; a marker
\* is deferred exactly when that path is a proper prefix of its own path
\* and is otherwise taken from the object cache; the resolution pass finds
\* every destination and every parent of a source in the object cache.
C24_MarkersResolve ==
  (RoundTripped /\ WalkDone) =>
    LET ps == Positions(enc.data, << >>)
    IN /\ \A i, j \in 1..Len(ps) :
            (i # j /\ ps[i].node.t # "leaf" /\ ps[j].node.t # "leaf") =>
              DecodePath(ps[i].path) # DecodePath(ps[j].path)
       /\ Len(dec.events) = Len(RepeatVisits)
       /\ \A n \in 1..Len(dec.events) :
            /\ dec.events[n].path = DecodePath(RepeatVisits[n].path)
            /\ dec.events[n].dest = DecodePath(FirstPath(RepeatVisits[n]))
            /\ dec.events[n].what = "deferred" <=>
                 Under(dec.events[n].dest, dec.events[n].path)
            /\ dec.events[n].what = "cached" <=>
                 ~Under(dec.events[n].dest, dec.events[n].path)
       /\ dec.err # "KeyError"
       /\ \A n \in 1..Len(dec.links) :
            /\ dec.links[n].dest \in DOMAIN dec.object_cache
            /\ \A m \in 1..Len(dec.links[n].sources) :
                 LET source == dec.links[n].sources[m]
                 IN /\ source # << >>
                    /\ SubSeq(source, 1, Len(source) - 1)
                         \in DOMAIN dec.object_cache

\* a round trip met a marker to an earlier sibling, taken from the cache,
\* and a marker to an ancestor, deferred, one of them below a "" key
C24_Witness ==
  /\ RoundTripped /\ WalkDone
  /\ \E n \in 1..Len(dec.events) : dec.events[n].what = "cached"
  /\ \E n \in 1..Len(dec.events) : dec.events[n].what = "deferred"
  /\ \E n \in 1..Len(RepeatVisits) :
       \E c \in 1..Len(FirstPath(RepeatVisits[n])) :
         FirstPath(RepeatVisits[n])[c] = StrKey(DATA)


====
